---- MODULE Spec2Model ----
(***************************************************************************)
(* Adaptive RSVP reader: the CognitiveEngine (linguistic analyzer,         *)
(* collocation detector, fatigue and comprehension monitor) and the        *)
(* SpeedReader playback engine with its setTimeout-driven scheduler.       *)
(*                                                                         *)
(* Representation.                                                         *)
(*  - A word is a sequence of characters, a character a one-letter string  *)
(*    ("ndash" and "mdash" stand for the two dash characters).             *)
(*  - A text is given as its paragraphs (the pieces between blank lines),  *)
(*    each the sequence of its whitespace-separated fragments.             *)
(*  - null is 0: timestamps and timer handles are positive.                *)
(*  - Multipliers are fixed-point numbers in units of 1/10000, the fatigue *)
(*    level in units of 1/100; a product is truncated to the unit.         *)
(*  - A method of the program is an operator from the object's state, a    *)
(*    record holding every field plus the pending timers and the           *)
(*    notifications emitted so far, to the state it leaves behind.         *)
(***************************************************************************)
EXTENDS Integers, Sequences, FiniteSets, TLC

(***************************************************************************)
(* Characters and the character classes of the regular expressions         *)
(***************************************************************************)
LowerCase ==
    << "a","b","c","d","e","f","g","h","i","j","k","l","m",
       "n","o","p","q","r","s","t","u","v","w","x","y","z" >>

UpperCase ==
    << "A","B","C","D","E","F","G","H","I","J","K","L","M",
       "N","O","P","Q","R","S","T","U","V","W","X","Y","Z" >>

Range(f) == { f[i] : i \in DOMAIN f }

Lower == Range(LowerCase)

Upper == Range(UpperCase)

Digit == { "0","1","2","3","4","5","6","7","8","9" }

\* \w
WordChar == Lower \cup Upper \cup Digit \cup { "_" }

\* [.!?]
Terminator == { ".", "!", "?" }

\* [,;:\-–—]
ClauseMark == { ",", ";", ":", "-", "ndash", "mdash" }

\* [@#$%&*+=<>]
SymbolChar == { "@", "#", "$", "%", "&", "*", "+", "=", "<", ">" }

ToLowerChar(c) ==
    IF c \in Upper
    THEN LowerCase[CHOOSE i \in DOMAIN UpperCase : UpperCase[i] = c]
    ELSE c

toLowerCase(w) == [i \in DOMAIN w |-> ToLowerChar(w[i])]

IsWordChar(c) == c \in WordChar

IsCleanChar(c) == c \in WordChar \cup { "'", "-" }

\* word.replace(/[^\w'-]/g, '').toLowerCase()
CleanWord(w) == toLowerCase(SelectSeq(w, IsCleanChar))

\* word.replace(/[^\w]/g, '')
StripNonWord(w) == SelectSeq(w, IsWordChar)

Max(a, b) == IF a >= b THEN a ELSE b

Min(a, b) == IF a <= b THEN a ELSE b

Null == 0

\* F applied to the value of v: one statement's result handed to the next
Bind(v, F(_)) == CHOOSE r \in { F(x) : x \in { v } } : TRUE

subordinators ==
    { <<"a","l","t","h","o","u","g","h">>, <<"b","e","c","a","u","s","e">>, <<"s","i","n","c","e">>, <<"w","h","i","l","e">>,
      <<"w","h","e","r","e","a","s">>, <<"u","n","l","e","s","s">>, <<"u","n","t","i","l">>, <<"b","e","f","o","r","e">>,
      <<"a","f","t","e","r">>, <<"w","h","e","n">>, <<"w","h","e","n","e","v","e","r">>, <<"w","h","e","r","e">>,
      <<"w","h","e","r","e","v","e","r">>, <<"i","f">>, <<"t","h","o","u","g","h">>, <<"e","v","e","n">>,
      <<"p","r","o","v","i","d","e","d">>, <<"a","s","s","u","m","i","n","g">> }

transitions ==
    { <<"h","o","w","e","v","e","r">>, <<"t","h","e","r","e","f","o","r","e">>, <<"f","u","r","t","h","e","r","m","o","r","e">>, <<"m","o","r","e","o","v","e","r">>,
      <<"n","e","v","e","r","t","h","e","l","e","s","s">>, <<"c","o","n","s","e","q","u","e","n","t","l","y">>, <<"m","e","a","n","w","h","i","l","e">>, <<"s","u","b","s","e","q","u","e","n","t","l","y">>,
      <<"a","c","c","o","r","d","i","n","g","l","y">>, <<"h","e","n","c","e">>, <<"t","h","u","s">>, <<"o","t","h","e","r","w","i","s","e">>,
      <<"i","n","s","t","e","a","d">>, <<"a","l","t","e","r","n","a","t","i","v","e","l","y">> }

highFrequency ==
    { <<"t","h","e">>, <<"a">>, <<"a","n">>, <<"i","s">>,
      <<"a","r","e">>, <<"w","a","s">>, <<"w","e","r","e">>, <<"b","e">>,
      <<"b","e","e","n">>, <<"b","e","i","n","g">>, <<"h","a","v","e">>, <<"h","a","s">>,
      <<"h","a","d">>, <<"d","o">>, <<"d","o","e","s">>, <<"d","i","d">>,
      <<"w","i","l","l">>, <<"w","o","u","l","d">>, <<"c","o","u","l","d">>, <<"s","h","o","u","l","d">>,
      <<"m","a","y">>, <<"m","i","g","h","t">>, <<"m","u","s","t">>, <<"s","h","a","l","l">>,
      <<"c","a","n">>, <<"t","o">>, <<"o","f">>, <<"i","n">>,
      <<"f","o","r">>, <<"o","n">>, <<"w","i","t","h">>, <<"a","t">>,
      <<"b","y">>, <<"f","r","o","m">>, <<"a","s">>, <<"i","n","t","o">>,
      <<"t","h","r","o","u","g","h">>, <<"d","u","r","i","n","g">>, <<"b","e","f","o","r","e">>, <<"a","f","t","e","r">>,
      <<"a","b","o","v","e">>, <<"b","e","l","o","w">>, <<"b","e","t","w","e","e","n">>, <<"u","n","d","e","r">>,
      <<"a","g","a","i","n">>, <<"f","u","r","t","h","e","r">>, <<"t","h","e","n">>, <<"o","n","c","e">>,
      <<"h","e","r","e">>, <<"t","h","e","r","e">>, <<"w","h","e","n">>, <<"w","h","e","r","e">>,
      <<"w","h","y">>, <<"h","o","w">>, <<"a","l","l">>, <<"e","a","c","h">>,
      <<"f","e","w">>, <<"m","o","r","e">>, <<"m","o","s","t">>, <<"o","t","h","e","r">>,
      <<"s","o","m","e">>, <<"s","u","c","h">>, <<"n","o">>, <<"n","o","r">>,
      <<"n","o","t">>, <<"o","n","l","y">>, <<"o","w","n">>, <<"s","a","m","e">>,
      <<"s","o">>, <<"t","h","a","n">>, <<"t","o","o">>, <<"v","e","r","y">>,
      <<"j","u","s","t">>, <<"a","l","s","o">>, <<"n","o","w">>, <<"a","n","d">>,
      <<"b","u","t">>, <<"o","r">>, <<"y","e","t">>, <<"b","o","t","h">>,
      <<"i","t">>, <<"i","t","s">>, <<"t","h","i","s">>, <<"t","h","a","t">>,
      <<"t","h","e","s","e">>, <<"t","h","o","s","e">>, <<"i">>, <<"y","o","u">>,
      <<"h","e">>, <<"s","h","e">>, <<"w","e">>, <<"t","h","e","y">>,
      <<"m","e">>, <<"h","i","m">>, <<"h","e","r">>, <<"u","s">>,
      <<"t","h","e","m">>, <<"m","y">>, <<"y","o","u","r">>, <<"h","i","s">>,
      <<"o","u","r">>, <<"t","h","e","i","r">>, <<"w","h","a","t">>, <<"w","h","i","c","h">>,
      <<"w","h","o">>, <<"w","h","o","m">> }

collocations ==
    << <<<<"i","n">>, <<"o","r","d","e","r">>, <<"t","o">>>>,
       <<<<"a","s">>, <<"w","e","l","l">>, <<"a","s">>>>,
       <<<<"i","n">>, <<"f","r","o","n","t">>, <<"o","f">>>>,
       <<<<"i","n">>, <<"s","p","i","t","e">>, <<"o","f">>>>,
       <<<<"o","n">>, <<"b","e","h","a","l","f">>, <<"o","f">>>>,
       <<<<"i","n">>, <<"t","e","r","m","s">>, <<"o","f">>>>,
       <<<<"b","y">>, <<"m","e","a","n","s">>, <<"o","f">>>>,
       <<<<"i","n">>, <<"a","d","d","i","t","i","o","n">>, <<"t","o">>>>,
       <<<<"w","i","t","h">>, <<"r","e","s","p","e","c","t">>, <<"t","o">>>>,
       <<<<"o","n">>, <<"t","o","p">>, <<"o","f">>>>,
       <<<<"i","n">>, <<"c","a","s","e">>, <<"o","f">>>>,
       <<<<"a","t">>, <<"t","h","e">>, <<"s","a","m","e">>, <<"t","i","m","e">>>>,
       <<<<"o","n">>, <<"t","h","e">>, <<"o","t","h","e","r">>, <<"h","a","n","d">>>>,
       <<<<"a","s">>, <<"a">>, <<"r","e","s","u","l","t">>>>,
       <<<<"f","o","r">>, <<"e","x","a","m","p","l","e">>>>,
       <<<<"f","o","r">>, <<"i","n","s","t","a","n","c","e">>>>,
       <<<<"i","n">>, <<"o","t","h","e","r">>, <<"w","o","r","d","s">>>>,
       <<<<"t","h","a","t">>, <<"i","s">>>>,
       <<<<"i","n">>, <<"f","a","c","t">>>>,
       <<<<"o","f">>, <<"c","o","u","r","s","e">>>>,
       <<<<"a","t">>, <<"l","e","a","s","t">>>>,
       <<<<"a","t">>, <<"l","a","s","t">>>>,
       <<<<"a","t">>, <<"f","i","r","s","t">>>>,
       <<<<"f","i","r","s","t">>, <<"o","f">>, <<"a","l","l">>>>,
       <<<<"g","o","i","n","g">>, <<"t","o">>>>,
       <<<<"u","s","e","d">>, <<"t","o">>>>,
       <<<<"h","a","v","e">>, <<"t","o">>>>,
       <<<<"h","a","s">>, <<"t","o">>>>,
       <<<<"w","a","n","t">>, <<"t","o">>>>,
       <<<<"n","e","e","d">>, <<"t","o">>>>,
       <<<<"a","b","l","e">>, <<"t","o">>>>,
       <<<<"o","u","g","h","t">>, <<"t","o">>>>,
       <<<<"r","i","g","h","t">>, <<"n","o","w">>>>,
       <<<<"s","o">>, <<"f","a","r">>>>,
       <<<<"u","p">>, <<"t","o">>>>,
       <<<<"f","r","o","m">>, <<"n","o","w">>, <<"o","n">>>> >>
(***************************************************************************)
(* CognitiveEngine: timing multipliers (per cent) and reading modes        *)
(***************************************************************************)
timing ==
    [ sentenceEnd     |-> 200, clauseBoundary |-> 140, paragraphEnd |-> 250,
      shortWord       |-> 85,  mediumWord     |-> 100, longWord     |-> 125,
      veryLongWord    |-> 150, highFrequency  |-> 80,  transition   |-> 150,
      subordinator    |-> 130, number         |-> 140, mixedCase    |-> 130,
      allCaps         |-> 120, hasSymbols     |-> 130, firstOccurrence |-> 135,
      recentRepeat    |-> 75,  hyphenated     |-> 140, collocationUnit |-> 110 ]

modes ==
    [ scan      |-> [ baseMultiplier |-> 70,  punctuationSensitivity |-> 50,
                      complexityWeight |-> 30 ],
      normal    |-> [ baseMultiplier |-> 100, punctuationSensitivity |-> 100,
                      complexityWeight |-> 100 ],
      study     |-> [ baseMultiplier |-> 140, punctuationSensitivity |-> 130,
                      complexityWeight |-> 150 ],
      proofread |-> [ baseMultiplier |-> 180, punctuationSensitivity |-> 150,
                      complexityWeight |-> 180 ] ]

ModeNames == DOMAIN modes

\* this.modes is a plain object: besides its own four keys, a lookup finds the
\* properties it inherits from Object.prototype (two of them here)
InheritedNames == { "constructor", "toString" }

\* this.modes[mode] is truthy
HasMode(mode) == mode \in ModeNames \cup InheritedNames

\* the multiplier once a factor of the product was undefined: not a number
NaN == -1

recentWindowSize == 25

\* multiplier 1.0 in units of 1/10000
One == 10000

\* fatigue level 1 in units of 1/100
FatigueOne == 100

MinMultiplier == 5000

MaxMultiplier == 35000

NoAnalysis ==
    [ original |-> <<>>, multiplier |-> 0, factors |-> <<>>, orpOffset |-> 0,
      isNull |-> TRUE ]

InitialFatigue ==
    [ startTime |-> Null, wordsRead |-> 0, rewinds |-> 0, pauses |-> 0,
      lastPauseTime |-> Null, fatigueLevel |-> 0, autoSlowdownApplied |-> 0 ]

InitialComprehension ==
    [ rewindCount |-> 0, pauseCount |-> 0, hesitationEvents |-> <<>>,
      avgPauseDuration |-> 0 ]

(***************************************************************************)
(* CognitiveEngine.analyzeToken                                            *)
(***************************************************************************)
\* /[.!?]+$/
sentenceEnd(w) == Len(w) > 0 /\ w[Len(w)] \in Terminator

\* /[,;:\-(en dash)(em dash)]/
clauseBoundaries(w) == \E i \in DOMAIN w : w[i] \in ClauseMark

\* /\d/
HasDigit(w) == \E i \in DOMAIN w : w[i] \in Digit

\* /[A-Z].*[a-z].*[A-Z]|[a-z].*[A-Z]/
MixedCase(w) ==
    \/ \E j \in DOMAIN w :
          /\ w[j] \in Lower
          /\ \E i \in 1..(j - 1) : w[i] \in Upper
          /\ \E k \in (j + 1)..Len(w) : w[k] \in Upper
    \/ \E i \in DOMAIN w :
          w[i] \in Lower /\ \E j \in (i + 1)..Len(w) : w[j] \in Upper

\* /^[A-Z]{2,}$/
AllCaps(w) == Len(w) >= 2 /\ \A i \in DOMAIN w : w[i] \in Upper

\* /[@#$%&*+=<>]/
HasSymbols(w) == \E i \in DOMAIN w : w[i] \in SymbolChar

\* word.includes('-') && word.length > 3
Hyphenated(w) == (\E i \in DOMAIN w : w[i] = "-") /\ Len(w) > 3

Includes(seq, x) == \E i \in DOMAIN seq : seq[i] = x

\* Map.set, were it to keep no entry but the one written
MapSetAlone(m, k, v) == (k :> v)

\* Map.set(k, v): the entry of k becomes v, every other entry stays
MapSet(m, k, v) == (k :> v) @@ m

Times(m, pct) == (m * pct) \div 100

Apply(a, pct, tag) ==
    [a EXCEPT !.multiplier = Times(@, pct), !.factors = Append(@, tag)]

Punctuation(a, token) ==
    IF sentenceEnd(token.word)
    THEN IF token.isLastInParagraph
         THEN Apply(a, timing.paragraphEnd, "paragraph-end")
         ELSE Apply(a, timing.sentenceEnd, "sentence-end")
    ELSE IF clauseBoundaries(token.word)
         THEN Apply(a, timing.clauseBoundary, "clause-boundary")
         ELSE a

WordLength(a, length) ==
    IF length <= 3 THEN Apply(a, timing.shortWord, "short")
    ELSE IF length <= 7 THEN a
    ELSE IF length <= 11
         THEN [Apply(a, timing.longWord, "long") EXCEPT !.orpOffset = 1]
         ELSE [Apply(a, timing.veryLongWord, "very-long") EXCEPT !.orpOffset = 2]

Frequency(a, cleanWord) ==
    IF cleanWord \in highFrequency
    THEN Apply(a, timing.highFrequency, "high-freq") ELSE a

SemanticRole(a, cleanWord) ==
    LET a1 == IF cleanWord \in transitions
              THEN Apply(a, timing.transition, "transition") ELSE a
    IN  IF cleanWord \in subordinators
        THEN Apply(a1, timing.subordinator, "subordinator") ELSE a1

TokenType(a, word, cleanWord) ==
    LET a1 == IF HasDigit(word) THEN Apply(a, timing.number, "numeric") ELSE a
        a2 == IF MixedCase(word) THEN Apply(a1, timing.mixedCase, "mixed-case") ELSE a1
        a3 == IF AllCaps(cleanWord) THEN Apply(a2, timing.allCaps, "acronym") ELSE a2
        a4 == IF HasSymbols(word) THEN Apply(a3, timing.hasSymbols, "symbols") ELSE a3
    IN  IF Hyphenated(word) THEN Apply(a4, timing.hyphenated, "hyphenated") ELSE a4

\* push without the shift
PushUnbounded(recent, cleanWord) == Append(recent, cleanWord)

\* the window after push and, past recentWindowSize, shift
PushRecent(recent, cleanWord) ==
    LET pushed == Append(recent, cleanWord)
    IN  IF Len(pushed) > recentWindowSize THEN Tail(pushed) ELSE pushed

\* step 6; s carries conceptMemory and recentWords, the analysis goes to s.analysis;
\* s.history lists the words that went through this step since the last reset
ConceptTracking(s, cleanWord) ==
    IF Len(cleanWord) > 4
    THEN LET isRecent   == Includes(s.recentWords, cleanWord)
             seenBefore == cleanWord \in DOMAIN s.conceptMemory
             tag == IF ~seenBefore /\ cleanWord \notin highFrequency
                    THEN "first-occurrence"
                    ELSE IF isRecent THEN "recent-repeat" ELSE "none"
             s1 == IF tag = "first-occurrence"
                   THEN [s EXCEPT
                           !.analysis = Apply(@, timing.firstOccurrence, tag),
                           !.conceptMemory = MapSet(@, cleanWord, 1)]
                   ELSE IF tag = "recent-repeat"
                   THEN [s EXCEPT
                           !.analysis = Apply(@, timing.recentRepeat, tag),
                           !.conceptMemory =
                               MapSet(@, cleanWord,
                                      (IF seenBefore THEN @[cleanWord] ELSE 0) + 1)]
                   ELSE s
         IN  [s1 EXCEPT !.recentWords = PushRecent(@, cleanWord),
                        !.history = Append(@, [ word |-> cleanWord, tag |-> tag ])]
    ELSE s

ComplexityTags == { "long", "very-long", "first-occurrence", "numeric", "mixed-case" }

\* an inherited property has no baseMultiplier: the product becomes NaN
ReadingMode(a, modeName) ==
    IF modeName \in ModeNames
    THEN LET mode == modes[modeName]
             a1 == [a EXCEPT !.multiplier = Times(@, mode.baseMultiplier)]
             complexityFactors ==
                 Cardinality({ i \in DOMAIN a.factors :
                                   a.factors[i] \in ComplexityTags })
         IN  IF complexityFactors > 0
             THEN [a1 EXCEPT !.multiplier =
                      (@ * (1000 + (mode.complexityWeight - 100) * complexityFactors))
                          \div 1000]
             ELSE a1
    ELSE [a EXCEPT !.multiplier = NaN]

FatigueAdjustment(a, fatigueLevel) ==
    IF fatigueLevel > 0
    THEN LET a1 == [a EXCEPT !.multiplier =
                             IF @ = NaN THEN NaN
                             ELSE (@ * (1000 + 3 * fatigueLevel)) \div 1000]
         IN  IF fatigueLevel * 10 > 3 * FatigueOne
             THEN [a1 EXCEPT !.factors = Append(@, "fatigue-adjusted")]
             ELSE a1
    ELSE a

\* Math.max(0.5, Math.min(3.5, analysis.multiplier)); both return NaN for NaN
ClampMultiplier(m) ==
    IF m = NaN THEN NaN ELSE Max(MinMultiplier, Min(MaxMultiplier, m))

analyzeToken(s, token) ==
    LET word      == token.word
        cleanWord == CleanWord(word)
        a0 == [ original |-> word, multiplier |-> One, factors |-> <<>>,
                orpOffset |-> 0, isNull |-> FALSE ]
        a5 == TokenType(
                  SemanticRole(
                      Frequency(WordLength(Punctuation(a0, token), Len(cleanWord)),
                                cleanWord),
                      cleanWord),
                  word, cleanWord)
        s6 == ConceptTracking([s EXCEPT !.analysis = a5], cleanWord)
        a8 == FatigueAdjustment(ReadingMode(s6.analysis, s.currentMode),
                                s.fatigue.fatigueLevel)
    IN  [s6 EXCEPT !.analysis = [a8 EXCEPT !.multiplier = ClampMultiplier(@)]]

(***************************************************************************)
(* CognitiveEngine.detectCollocation and preprocessText                    *)
(***************************************************************************)
\* words[index + i].toLowerCase().replace(/[^\w]/g, '')
Normalize(w) == StripNonWord(toLowerCase(w))

\* the inner loop: every word of the catalog phrase equals the normalized word
CollocationMatches(words, index, collocation) ==
    /\ Len(collocation) <= Len(words) - index
    /\ \A i \in 1..Len(collocation) : Normalize(words[index + i]) = collocation[i]

\* the words of the first catalog phrase matching at index (0-based); <<>> is null
detectCollocation(words, index) ==
    LET hits == { k \in DOMAIN collocations :
                      CollocationMatches(words, index, collocations[k]) }
    IN  IF hits = {} THEN <<>>
        ELSE LET first == CHOOSE k \in hits : \A h \in hits : k <= h
             IN  SubSeq(words, index + 1, index + Len(collocations[first]))

ParagraphTokens(text, p, globalIndex) ==
    LET para == text[p]
    IN  [ j \in 1..Len(para) |->
            [ word              |-> para[j],
              index             |-> globalIndex + j - 1,
              paragraphIndex    |-> p - 1,
              sentencePosition  |-> j - 1,
              isLastInParagraph |-> j = Len(para),
              isLastWord        |-> p = Len(text) /\ j = Len(para),
              collocation       |-> detectCollocation(para, j - 1) ] ]

RECURSIVE TokensUpTo(_, _)
TokensUpTo(text, p) ==
    IF p = 0 THEN <<>>
    ELSE LET before == TokensUpTo(text, p - 1)
         IN  before \o ParagraphTokens(text, p, Len(before))

\* text: the paragraphs of the raw text, each the sequence of its words
preprocessText(text) == TokensUpTo(text, Len(text))

(***************************************************************************)
(* CognitiveEngine.updateFatigue, getFatigueStatus, assessComprehension,   *)
(* setMode, reset                                                          *)
(***************************************************************************)
Event(type, duration) == [ type |-> type, duration |-> duration ]

\* Math.min(1, (minutes - 5) / 20) with minutes = elapsed / 60000
TimeFatigue(elapsedMs) == Min(FatigueOne, (elapsedMs - 300000) \div 12000)

FatigueOnWord(f, now) ==
    LET f1 == [f EXCEPT !.wordsRead = @ + 1]
    IN  IF f.startTime # Null /\ now - f.startTime > 300000
        THEN [f1 EXCEPT !.fatigueLevel = TimeFatigue(now - f.startTime)]
        ELSE f1

FatigueRewindFlat(f) ==
    [f EXCEPT !.rewinds = @ + 1, !.fatigueLevel = 5]

FatigueOnRewind(f) ==
    [f EXCEPT !.rewinds = @ + 1, !.fatigueLevel = Min(FatigueOne, @ + 5)]

FatigueOnPause(f, duration) ==
    LET f1 == [f EXCEPT !.pauses = @ + 1]
    IN  IF duration > 3000
        THEN [f1 EXCEPT !.fatigueLevel = Min(FatigueOne, @ + 3)]
        ELSE f1

\* the recovery without the floor at 0
FatigueRecover(f) == [f EXCEPT !.fatigueLevel = @ - 2]

FatigueOnResume(f) == [f EXCEPT !.fatigueLevel = Max(0, @ - 2)]

updateFatigue(s, event) ==
    CASE event.type = "start" ->
           [s EXCEPT !.fatigue.startTime = s.now,
                     !.fatigue.wordsRead = 0,
                     !.fatigue.fatigueLevel = 0]
      [] event.type = "word" ->
           [s EXCEPT !.fatigue = FatigueOnWord(@, s.now)]
      [] event.type = "rewind" ->
           [s EXCEPT !.fatigue = FatigueOnRewind(@),
                     !.comprehension.rewindCount = @ + 1]
      [] event.type = "pause" ->
           [s EXCEPT !.fatigue = FatigueOnPause(@, event.duration),
                     !.comprehension.pauseCount = @ + 1]
      [] event.type = "resume" ->
           [s EXCEPT !.fatigue = FatigueOnResume(@)]
      [] OTHER -> s

getFatigueStatus(f) ==
    LET level == f.fatigueLevel
    IN  IF level * 10 < 2 * FatigueOne THEN [ level |-> level, status |-> "fresh" ]
        ELSE IF level * 10 < 5 * FatigueOne THEN [ level |-> level, status |-> "mild" ]
        ELSE IF level * 10 < 8 * FatigueOne THEN [ level |-> level, status |-> "moderate" ]
        ELSE [ level |-> level, status |-> "high" ]

assessComprehensionInclusive(f, c) ==
    LET reads  == Max(1, f.wordsRead)
        s1 == IF c.rewindCount * 100 >= 5 * reads THEN 100 - 20 ELSE 100
        s2 == IF c.pauseCount * 100 >= 3 * reads THEN s1 - 10 ELSE s1
        score == IF f.fatigueLevel * 10 >= 5 * FatigueOne THEN s2 - 20 ELSE s2
    IN  [ score           |-> Max(0, score),
          suggestSlowdown |-> score < 70,
          suggestBreak    |-> score < 50 \/ f.fatigueLevel * 10 >= 7 * FatigueOne ]

\* score in units of 1/100; rate > 0.05 is count * 100 > 5 * max(1, wordsRead)
assessComprehension(f, c) ==
    LET reads  == Max(1, f.wordsRead)
        s1 == IF c.rewindCount * 100 > 5 * reads THEN 100 - 20 ELSE 100
        s2 == IF c.pauseCount * 100 > 3 * reads THEN s1 - 10 ELSE s1
        score == IF f.fatigueLevel * 10 > 5 * FatigueOne THEN s2 - 20 ELSE s2
    IN  [ score           |-> Max(0, score),
          suggestSlowdown |-> score < 70,
          suggestBreak    |-> score < 50 \/ f.fatigueLevel * 10 > 7 * FatigueOne ]

cognitiveSetMode(s, mode) ==
    IF HasMode(mode)
    THEN [s EXCEPT !.currentMode = mode]
    ELSE s

resetFatigueOnly(s) ==
    [s EXCEPT !.conceptMemory = <<>>,
              !.recentWords = <<>>,
              !.history = <<>>,
              !.fatigue = InitialFatigue]

resetKeepingConcepts(s) ==
    [s EXCEPT !.recentWords = <<>>,
              !.history = <<>>,
              !.fatigue = InitialFatigue,
              !.comprehension = InitialComprehension]

reset(s) ==
    [s EXCEPT !.conceptMemory = <<>>,
              !.recentWords = <<>>,
              !.history = <<>>,
              !.fatigue = InitialFatigue,
              !.comprehension = InitialComprehension]

(***************************************************************************)
(* CognitiveEngine.calculateAdaptiveORP                                    *)
(***************************************************************************)
BaseOrpIndex(length) ==
    IF length <= 4 THEN 1
    ELSE IF length <= 8 THEN 2
    ELSE IF length <= 12 THEN 3
    ELSE length \div 4

\* the while loop: the position in word after orpIndex word characters
RECURSIVE WalkToOrp(_, _, _, _)
WalkToOrp(word, orpIndex, cleanIndex, actualIndex) ==
    IF cleanIndex < orpIndex /\ actualIndex < Len(word)
    THEN WalkToOrp(word, orpIndex,
                   IF word[actualIndex + 1] \in WordChar
                   THEN cleanIndex + 1 ELSE cleanIndex,
                   actualIndex + 1)
    ELSE actualIndex

SplitAt(word, actualIndex) ==
    [ prefix |-> SubSeq(word, 1, actualIndex),
      focus  |-> IF actualIndex < Len(word) THEN <<word[actualIndex + 1]>> ELSE <<>>,
      suffix |-> SubSeq(word, actualIndex + 2, Len(word)) ]

calculateORPByWalk(word, orpOffset) ==
    LET length == Len(StripNonWord(word))
        orpIndex == Max(0, Min(length - 1, BaseOrpIndex(length) + orpOffset))
    IN  SplitAt(word, WalkToOrp(word, orpIndex, 0, 0))

calculateAdaptiveORP(word, orpOffset) ==
    LET length == Len(StripNonWord(word))
    IN  IF length = 0 \/ length = 1
        THEN [ prefix |-> <<>>, focus |-> word, suffix |-> <<>> ]
        ELSE IF length = 2
        THEN [ prefix |-> <<word[1]>>, focus |-> <<word[2]>>, suffix |-> <<>> ]
        ELSE LET orpIndex ==
                     Max(0, Min(length - 1, BaseOrpIndex(length) + orpOffset))
             IN  SplitAt(word, WalkToOrp(word, orpIndex, 0, 0))

(***************************************************************************)
(* SpeedReader: helpers                                                    *)
(***************************************************************************)
DefaultWpm == 300

longWordThreshold == 8

NoWord ==
    [ isNull |-> TRUE, word |-> <<>>, displayText |-> <<>>, isCollocation |-> FALSE,
      index |-> 0, total |-> 0, prefix |-> <<>>, focus |-> <<>>, suffix |-> <<>>,
      analysis |-> NoAnalysis ]

Undefined == [ kind |-> "undefined", value |-> 0 ]

BoolRet(b) == [ kind |-> "boolean", value |-> IF b THEN 1 ELSE 0 ]

NumRet(n) == [ kind |-> "number", value |-> n ]

EmitFirst(s, note) == [s EXCEPT !.emitted = << note >> \o @]

Emit(s, note) == [s EXCEPT !.emitted = Append(@, note)]

StateChange(state) == [ type |-> "state", state |-> state ]

WordChange(cw) == [ type |-> "word", word |-> cw ]

Progress(current, total, percentNum) ==
    [ type |-> "progress", current |-> current, total |-> total,
      progress |-> << percentNum, total >> ]

RECURSIVE Flatten(_)
Flatten(text) ==
    IF text = <<>> THEN <<>> ELSE Head(text) \o Flatten(Tail(text))

\* text.split(/\s+/).filter(word => word.length > 0)
parseText(text) == Flatten(text)

\* Math.round of num / den, den > 0
Round(num, den) == (2 * num + den) \div (2 * den)

\* /[.!?]$/
endPunctuation(w) == Len(w) > 0 /\ w[Len(w)] \in Terminator

\* /[,;:(em dash)(en dash)-]$/
midPunctuation(w) == Len(w) > 0 /\ w[Len(w)] \in ClauseMark

BasicMultiplierLengthOnly(config, word) ==
    IF config.extraTimeForLongWords /\ Len(StripNonWord(word)) > longWordThreshold
    THEN << 13, 10 >> ELSE << 1, 1 >>

\* the fallback multiplier as a fraction << numerator, denominator >>:
\* punctuationMultiplier 1.5 (times 1.2 at a sentence end), longWordMultiplier 1.3
BasicMultiplier(config, word) ==
    LET p == IF config.pauseAtPunctuation
             THEN IF endPunctuation(word) THEN << 18, 10 >>
                  ELSE IF midPunctuation(word) THEN << 15, 10 >>
                  ELSE << 1, 1 >>
             ELSE << 1, 1 >>
        l == IF config.extraTimeForLongWords
                /\ Len(StripNonWord(word)) > longWordThreshold
             THEN << 13, 10 >> ELSE << 1, 1 >>
    IN  << p[1] * l[1], p[2] * l[2] >>

\* Math.round((60000 / wpm) * multiplier), computed exactly; in doubles
\* 1.5 * 1.2 is 1.7999999999999998, so at a few rates where the exact product
\* ends in .5 (64, 320, 960 wpm, ...) the code returns 1 ms less
getWordDuration(config, word, analysis) ==
    IF /\ config.adaptiveMode
       /\ ~analysis.isNull
       /\ analysis.multiplier # 0
       /\ analysis.multiplier # NaN
    THEN Round(6 * analysis.multiplier, config.wpm)
    ELSE LET m == BasicMultiplier(config, word)
         IN  Round(60000 * m[1], config.wpm * m[2])

calculateORP(word, analysis) ==
    IF ~analysis.isNull
    THEN calculateAdaptiveORP(word, analysis.orpOffset)
    ELSE calculateAdaptiveORP(word, 0)

\* the handle of a new timer: one that no pending timer and no field holds
FreshId(s) ==
    CHOOSE id \in 1..(Cardinality(s.timers) + 2) :
        /\ id # s.timeoutId
        /\ \A t \in s.timers : t.id # id
        /\ \A j \in 1..(id - 1) : j = s.timeoutId \/ \E t \in s.timers : t.id = j

\* this.timeoutId = setTimeout(() => this.showNextWord(), delay)
setTimeout(s, delay) ==
    LET id == FreshId(s)
    IN  [s EXCEPT !.timers = @ \cup { [ id |-> id, delay |-> delay ] },
                  !.timeoutId = id]

\* if (this.timeoutId) { clearTimeout(this.timeoutId); this.timeoutId = null; }
clearTimer(s) ==
    IF s.timeoutId # Null
    THEN [s EXCEPT !.timers = { t \in @ : t.id # s.timeoutId },
                   !.timeoutId = Null]
    ELSE s

(***************************************************************************)
(* SpeedReader: methods.  s.threw is set when the method raised a          *)
(* TypeError; the statements after the raising one are not executed.       *)
(***************************************************************************)
load(s0, text) ==
    Bind(s0, LAMBDA s :
        LET s1 == [s EXCEPT !.words = parseText(text),
                            !.currentIndex = 0,
                            !.isPlaying = FALSE,
                            !.isPaused = FALSE,
                            !.totalPausedDuration = 0,
                            !.skipCount = 0]
            s3 == [clearTimer(s1) EXCEPT !.tokens = preprocessText(text)]
            s4 == updateFatigue(reset(s3), Event("start", 0))
        IN  [Emit(s4, StateChange("loaded")) EXCEPT
                !.ret = NumRet(Len(parseText(text)))])

\* the length itself
CollocationLength(collocation) == Len(collocation)

\* this.skipCount = token.collocation.length - 1
CollocationSkip(collocation) == Len(collocation) - 1

\* analysis = this.cognitive.analyzeToken(token); this.config.onAnalysis(analysis)
Analysed(s, token) ==
    IF s.config.adaptiveMode
    THEN Bind(analyzeToken(s, token), LAMBDA sa :
             Emit(sa, [ type |-> "analysis", analysis |-> sa.analysis ]))
    ELSE [s EXCEPT !.analysis = NoAnalysis]

\* the result is left in s.currentWord (NoWord for null)
getCurrentWord(s0) ==
    Bind(s0, LAMBDA s :
        IF s.currentIndex >= Len(s.words)
        THEN [s EXCEPT !.currentWord = NoWord]
        ELSE IF s.currentIndex < 0
        THEN \* words[-1] is undefined: word.replace raises in analyzeToken or
             \* calculateORP
             [s EXCEPT !.threw = TRUE]
        ELSE Bind(Analysed(s, s.tokens[s.currentIndex + 1]), LAMBDA s1 :
             Bind(calculateORP(s.words[s.currentIndex + 1], s1.analysis), LAMBDA orp :
                 LET word  == s.words[s.currentIndex + 1]
                     token == s.tokens[s.currentIndex + 1]
                     joint == token.collocation # <<>> /\ s.skipCount = 0
                 IN  [s1 EXCEPT
                        !.skipCount = IF joint THEN CollocationSkip(token.collocation)
                                      ELSE @,
                        !.currentWord =
                            [ isNull        |-> FALSE,
                              word          |-> word,
                              displayText   |-> IF joint THEN token.collocation
                                                ELSE << word >>,
                              isCollocation |-> joint,
                              index         |-> s.currentIndex,
                              total         |-> Len(s.words),
                              prefix        |-> orp.prefix,
                              focus         |-> orp.focus,
                              suffix        |-> orp.suffix,
                              analysis      |-> s1.analysis ]])))

comprehensionOf(s) == assessComprehension(s.fatigue, s.comprehension)

\* SpeedReader.getComprehension with the cognitive engine present
getComprehension(s) ==
    [s EXCEPT !.ret = [ kind |-> "comprehension", value |-> comprehensionOf(s) ]]

complete(s0) ==
    Bind(s0, LAMBDA s :
        LET durationMs == IF s.startTime # Null
                          THEN s.now - s.startTime - s.totalPausedDuration
                          ELSE 0
            stats == [ wordCount     |-> Len(s.words),
                       durationMs    |-> durationMs,
                       actualWPM     |-> IF durationMs > 0
                                         THEN Round(Len(s.words) * 60000, durationMs)
                                         ELSE 0,
                       fatigue       |-> getFatigueStatus(s.fatigue),
                       comprehension |-> comprehensionOf(s) ]
        IN  Emit(Emit([s EXCEPT !.isPlaying = FALSE, !.isPaused = FALSE],
                      StateChange("completed")),
                 [ type |-> "complete", stats |-> stats ]))

showNextWord(s0) ==
    Bind(s0, LAMBDA s :
        IF s.skipCount > 0
        THEN Bind([s EXCEPT !.skipCount = @ - 1, !.currentIndex = @ + 1], LAMBDA s1 :
                 IF s1.isPlaying /\ s1.currentIndex < Len(s1.words)
                 THEN setTimeout(s1, 10)
                 ELSE s1)
        ELSE IF s.currentIndex >= Len(s.words)
        THEN complete(s)
        ELSE Bind(getCurrentWord(s), LAMBDA s1 :
                 IF s1.threw THEN s1
                 ELSE LET cw == s1.currentWord
                          s2 == updateFatigue(s1, Event("word", 0))
                          s3 == Emit(Emit(s2, WordChange(cw)),
                                     Progress(s.currentIndex + 1, Len(s.words),
                                              (s.currentIndex + 1) * 100))
                      IN  Bind([s3 EXCEPT !.currentIndex = @ + 1], LAMBDA s4 :
                              IF s4.isPlaying /\ s4.currentIndex < Len(s4.words)
                              THEN setTimeout(s4, getWordDuration(s4.config, cw.word,
                                                                  cw.analysis))
                              ELSE IF s4.currentIndex >= Len(s4.words)
                              THEN complete(s4)
                              ELSE s4)))

\* the statements of play() before showNextWord()
Resume(s) ==
    LET s2 == [s EXCEPT !.currentIndex = IF @ >= Len(s.words) THEN 0 ELSE @,
                        !.isPlaying = TRUE,
                        !.isPaused = FALSE]
        s3 == IF s.pauseStartTime # Null
              THEN [updateFatigue(s2, Event("resume", s.now - s.pauseStartTime))
                       EXCEPT !.pauseStartTime = Null]
              ELSE s2
        s4 == IF s.pausedTime # Null
              THEN [s3 EXCEPT !.totalPausedDuration = @ + (s.now - s.pausedTime),
                              !.pausedTime = Null]
              ELSE IF s.startTime = Null
              THEN [s3 EXCEPT !.startTime = s.now]
              ELSE s3
    IN  Emit(s4, StateChange("playing"))

playDeferred(s0) ==
    Bind(s0, LAMBDA s :
        IF Len(s.words) = 0
        THEN [s EXCEPT !.ret = BoolRet(FALSE)]
        ELSE [setTimeout(Resume(s), 10) EXCEPT !.ret = BoolRet(TRUE)])

play(s0) ==
    Bind(s0, LAMBDA s :
        IF Len(s.words) = 0
        THEN [s EXCEPT !.ret = BoolRet(FALSE)]
        ELSE Bind(showNextWord(Resume(s)), LAMBDA s5 :
                 IF s5.threw THEN s5 ELSE [s5 EXCEPT !.ret = BoolRet(TRUE)]))

pauseUnguarded(s0) ==
    Bind(s0, LAMBDA s :
        LET s1 == [s EXCEPT !.isPlaying = FALSE,
                            !.isPaused = TRUE,
                            !.pausedTime = s.now,
                            !.pauseStartTime = s.now]
            s2 == updateFatigue(clearTimer(s1), Event("pause", 0))
        IN  [Emit(s2, StateChange("paused")) EXCEPT !.ret = BoolRet(TRUE)])

pause(s0) ==
    Bind(s0, LAMBDA s :
        IF ~s.isPlaying
        THEN [s EXCEPT !.ret = BoolRet(FALSE)]
        ELSE LET s1 == [s EXCEPT !.isPlaying = FALSE,
                                 !.isPaused = TRUE,
                                 !.pausedTime = s.now,
                                 !.pauseStartTime = s.now]
                 s2 == updateFatigue(clearTimer(s1), Event("pause", 0))
             IN  [Emit(s2, StateChange("paused")) EXCEPT !.ret = BoolRet(TRUE)])

\* the notifications shared by restart, goToWord, next and prev
NotifyWord(s, current, percentNum) ==
    IF ~s.currentWord.isNull
    THEN Emit(Emit(s, WordChange(s.currentWord)),
              Progress(current, Len(s.words), percentNum))
    ELSE s

restart(s0) ==
    Bind(pause(s0), LAMBDA s1 :
        LET s2 == [s1 EXCEPT !.currentIndex = 0,
                             !.startTime = Null,
                             !.pausedTime = Null,
                             !.totalPausedDuration = 0,
                             !.skipCount = 0]
        IN  Bind(getCurrentWord(updateFatigue(reset(s2), Event("start", 0))),
                 LAMBDA s3 :
                     [Emit(NotifyWord(s3, 1, 0), StateChange("ready")) EXCEPT
                         !.ret = Undefined]))

\* the word at the cursor is fetched and announced; play() if it was playing
Announce(s1, wasPlaying) ==
    Bind(getCurrentWord(s1), LAMBDA s2 :
        IF s2.threw THEN s2
        ELSE Bind(NotifyWord(s2, s2.currentIndex + 1, (s2.currentIndex + 1) * 100),
                  LAMBDA s3 :
                      IF wasPlaying THEN [play(s3) EXCEPT !.ret = Undefined]
                      ELSE [s3 EXCEPT !.ret = Undefined]))

\* pause() if playing, then currentIndex is set and skipCount cleared
MoveTo(s, index, wasPlaying) ==
    Bind(IF wasPlaying THEN pause(s) ELSE s, LAMBDA s1 :
        Announce([s1 EXCEPT !.currentIndex = index, !.skipCount = 0], wasPlaying))

goToWordFloorOnly(s0, index) ==
    Bind(s0, LAMBDA s :
        MoveTo(s, IF index < 0 THEN 0 ELSE index, s.isPlaying))

goToWord(s0, index) ==
    Bind(s0, LAMBDA s :
        LET i1 == IF index < 0 THEN 0 ELSE index
            i2 == IF i1 >= Len(s.words) THEN Len(s.words) - 1 ELSE i1
        IN  MoveTo(s, i2, s.isPlaying))

next(s0) ==
    Bind(s0, LAMBDA s :
        IF s.currentIndex < Len(s.words) - 1
        THEN MoveTo(s, s.currentIndex + 1, s.isPlaying)
        ELSE [s EXCEPT !.ret = Undefined])

\* prev, were it to un-learn what was read on the way forward
prevUnlearning(s0) ==
    Bind(s0, LAMBDA s :
        IF s.currentIndex > 0
        THEN Bind(IF s.isPlaying THEN pause(s) ELSE s, LAMBDA s1 :
                 Announce(updateFatigue([s1 EXCEPT !.currentIndex = @ - 1,
                                                   !.skipCount = 0,
                                                   !.conceptMemory = <<>>,
                                                   !.recentWords = <<>>],
                                        Event("rewind", 0)),
                          s.isPlaying))
        ELSE [s EXCEPT !.ret = Undefined])

prev(s0) ==
    Bind(s0, LAMBDA s :
        IF s.currentIndex > 0
        THEN Bind(IF s.isPlaying THEN pause(s) ELSE s, LAMBDA s1 :
                 Announce(updateFatigue([s1 EXCEPT !.currentIndex = @ - 1,
                                                   !.skipCount = 0],
                                        Event("rewind", 0)),
                          s.isPlaying))
        ELSE [s EXCEPT !.ret = Undefined])

jump(s0, count) ==
    Bind(s0, LAMBDA s :
        LET newIndex == Max(0, Min(Len(s.words) - 1, s.currentIndex + count))
        IN  goToWord(IF count < 0 THEN updateFatigue(s, Event("rewind", 0)) ELSE s,
                     newIndex))

\* Object.assign(this.config, newConfig), for a newConfig holding configuration keys
updateConfig(s, newConfig) ==
    [s EXCEPT !.config = [ key \in DOMAIN s.config |->
                             IF key \in DOMAIN newConfig THEN newConfig[key]
                             ELSE s.config[key] ],
              !.ret = Undefined]

setWPM(s, wpm) ==
    LET clamped == Max(50, Min(1500, wpm))
    IN  [s EXCEPT !.config.wpm = clamped, !.ret = NumRet(clamped)]

setMode(s, mode) ==
    [cognitiveSetMode(s, mode) EXCEPT
        !.ret = IF HasMode(mode) THEN [ kind |-> "mode", value |-> 1 ]
                ELSE [ kind |-> "null", value |-> 0 ]]

setAdaptiveMode(s, enabled) ==
    [s EXCEPT !.config.adaptiveMode = enabled, !.ret = Undefined]

(***************************************************************************)
(* Words and texts used as inputs                                          *)
(***************************************************************************)
W_in == << "i", "n" >>

W_order == << "o", "r", "d", "e", "r" >>

W_to == << "t", "o" >>

W_go == << "g", "o" >>

W_we == << "w", "e" >>

W_want == << "w", "a", "n", "t" >>

W_on == << "o", "n" >>

W_a == << "a" >>

W_Hello == << "H", "e", "l", "l", "o" >>

W_world_ == << "w", "o", "r", "l", "d", "." >>

W_there == << "t", "h", "e", "r", "e" >>

W_although == << "a", "l", "t", "h", "o", "u", "g", "h" >>

W_Furthermore_ == << "F", "u", "r", "t", "h", "e", "r", "m", "o", "r", "e", "." >>

W_iPhone15 == << "i", "P", "h", "o", "n", "e", "-", "1", "5", "," >>

W_hashtag == << "#", "t", "a", "g", "@" >>

W_NASA == << "N", "A", "S", "A" >>

W_dots == << ".", ".", "." >>

W_dont == << "d", "o", "n", "'", "t" >>

W_internationalization ==
    << "i", "n", "t", "e", "r", "n", "a", "t", "i", "o", "n", "a", "l", "i", "z",
       "a", "t", "i", "o", "n" >>

\* "" and whitespace-only text: one paragraph without words
EmptyText == << <<>> >>

\* "in order to go": a collocation of three at the start
TextHead == << << W_in, W_order, W_to, W_go >> >>

\* "we want to": a collocation of two at the end
TextTail == << << W_we, W_want, W_to >> >>

\* "go we want to": two plain words, then a collocation of two at the end
TextLate == << << W_go, W_we, W_want, W_to >> >>

\* "go on": no collocation
TextPlain == << << W_go, W_on >> >>

\* "Hello world." and, after a blank line, "Hello there"
TextContent == << << W_Hello, W_world_ >>, << W_Hello, W_there >> >>

\* "worda wordb ... wordz worda ...": n words, the first 26 of them distinct
MaxLongText == 27

LongWord(k) == << "w", "o", "r", "d", LowerCase[((k - 1) % 26) + 1] >>

LongText == << [ k \in 1..MaxLongText |-> LongWord(k) ] >>

\* the same words, each followed by the short word "go"
MixedText ==
    << [ k \in 1..(2 * MaxLongText) |->
           IF k % 2 = 1 THEN LongWord((k + 1) \div 2) ELSE W_go ] >>

\* the texts of the scheduler specification
Texts == { EmptyText, TextTail }

\* the texts played from start to end
PlaybackTexts ==
    { EmptyText, TextHead, TextTail, TextLate, TextPlain, TextContent, LongText,
      MixedText }

PlainToken(word, last) ==
    [ word |-> word, index |-> 0, paragraphIndex |-> 0, sentencePosition |-> 0,
      isLastInParagraph |-> last, isLastWord |-> FALSE, collocation |-> <<>> ]

\* the tokens handed to analyzeToken directly
TokenPool ==
    { PlainToken(w, FALSE) :
        w \in { W_a, W_order, W_there, W_although, W_Furthermore_, W_iPhone15,
                W_hashtag, W_NASA, W_dots, W_dont, W_internationalization } }
    \cup { PlainToken(w, TRUE) : w \in { W_Furthermore_, W_dots, W_order } }

\* the fatigue levels an analysis starts from
FatigueLevels == { 0, 31, FatigueOne }

(***************************************************************************)
(* Bounds of the model                                                     *)
(***************************************************************************)
MaxTimers == 2

MaxWordsRead == 2

MaxRewinds == 1

MaxPauses == 1

MaxHistory == 2

MaxEvents == 2

\* clock readings in multiples of AdvanceStep past the first one
MaxAdvances == 5

(***************************************************************************)
(* State                                                                   *)
(***************************************************************************)
VARIABLES
    words, tokens, currentIndex, isPlaying, isPaused, timeoutId,
    startTime, pausedTime, pauseStartTime, totalPausedDuration, skipCount,
    config,                 \* wpm, pauseAtPunctuation, extraTimeForLongWords, adaptiveMode
    currentMode, conceptMemory, recentWords, fatigue, comprehension,
    timers,                 \* the pending setTimeout callbacks: [id, delay]
    now,                    \* Date.now()
    emitted,                \* the callbacks invoked by the last operation, in order
    ret,                    \* the value the last operation returned
    threw,                  \* the last operation raised a TypeError
    analysis,               \* the last operation's latest analyzeToken result
    currentWord,            \* the last operation's latest getCurrentWord result
    history,                \* the words sent through concept tracking since the last reset
    op                      \* the last operation, its argument, whether it began while playing, and
                            \* whether load has been called so far

vars ==
    << words, tokens, currentIndex, isPlaying, isPaused, timeoutId,
       startTime, pausedTime, pauseStartTime, totalPausedDuration, skipCount,
       config, currentMode, conceptMemory, recentWords, fatigue, comprehension,
       timers, now, emitted, ret, threw, analysis, currentWord, history, op >>

\* the object an operation starts from
Cur ==
    [ words |-> words, tokens |-> tokens, currentIndex |-> currentIndex,
      isPlaying |-> isPlaying, isPaused |-> isPaused, timeoutId |-> timeoutId,
      startTime |-> startTime, pausedTime |-> pausedTime,
      pauseStartTime |-> pauseStartTime,
      totalPausedDuration |-> totalPausedDuration, skipCount |-> skipCount,
      config |-> config, currentMode |-> currentMode,
      conceptMemory |-> conceptMemory, recentWords |-> recentWords,
      fatigue |-> fatigue, comprehension |-> comprehension,
      timers |-> timers, now |-> now,
      emitted |-> <<>>, ret |-> Undefined, threw |-> FALSE,
      analysis |-> NoAnalysis, currentWord |-> NoWord, history |-> history ]

Op(name, arg) ==
    [ name |-> name, arg |-> arg, wasPlaying |-> isPlaying,
      loaded |-> (name = "load" \/ op.loaded) ]

\* the operation ends in s
Commit(s, o) ==
    \E r \in { s } :
        /\ words' = r.words
        /\ tokens' = r.tokens
        /\ currentIndex' = r.currentIndex
        /\ isPlaying' = r.isPlaying
        /\ isPaused' = r.isPaused
        /\ timeoutId' = r.timeoutId
        /\ startTime' = r.startTime
        /\ pausedTime' = r.pausedTime
        /\ pauseStartTime' = r.pauseStartTime
        /\ totalPausedDuration' = r.totalPausedDuration
        /\ skipCount' = r.skipCount
        /\ config' = r.config
        /\ currentMode' = r.currentMode
        /\ conceptMemory' = r.conceptMemory
        /\ recentWords' = r.recentWords
        /\ fatigue' = r.fatigue
        /\ comprehension' = r.comprehension
        /\ timers' = r.timers
        /\ now' = r.now
        /\ emitted' = r.emitted
        /\ ret' = r.ret
        /\ threw' = r.threw
        /\ analysis' = r.analysis
        /\ currentWord' = r.currentWord
        /\ history' = r.history
        /\ op' = o

\* new SpeedReader(options) at time t, then the reading mode, fatigue record and
\* comprehension record given
ConstructedIn(options, t, mode, f, c) ==
    /\ words = <<>>
    /\ tokens = <<>>
    /\ currentIndex = 0
    /\ isPlaying = FALSE
    /\ isPaused = FALSE
    /\ timeoutId = Null
    /\ startTime = Null
    /\ pausedTime = Null
    /\ pauseStartTime = Null
    /\ totalPausedDuration = 0
    /\ skipCount = 0
    /\ config = [ wpm                   |-> IF options.wpm # 0 THEN options.wpm
                                            ELSE DefaultWpm,
                  pauseAtPunctuation    |-> options.pauseAtPunctuation,
                  extraTimeForLongWords |-> options.extraTimeForLongWords,
                  adaptiveMode          |-> options.adaptiveMode ]
    /\ currentMode = mode
    /\ conceptMemory = <<>>
    /\ recentWords = <<>>
    /\ fatigue = f
    /\ comprehension = c
    /\ timers = {}
    /\ now = t
    /\ emitted = <<>>
    /\ ret = Undefined
    /\ threw = FALSE
    /\ analysis = NoAnalysis
    /\ currentWord = NoWord
    /\ history = <<>>
    /\ op = [ name |-> "new", arg |-> 0, wasPlaying |-> FALSE, loaded |-> FALSE ]

\* new SpeedReader(options) at time t, then the reading mode and fatigue level given
ConstructedWith(options, t, mode, level) ==
    ConstructedIn(options, t, mode,
                  [InitialFatigue EXCEPT !.fatigueLevel = level],
                  InitialComprehension)

\* new SpeedReader(options) at time t
Constructed(options, t) == ConstructedWith(options, t, "normal", 0)

DefaultOptions ==
    [ wpm |-> 0, pauseAtPunctuation |-> TRUE, extraTimeForLongWords |-> TRUE,
      adaptiveMode |-> TRUE ]

(***************************************************************************)
(* Operations: the public commands and the timer callback                  *)
(***************************************************************************)
Load(text) == Commit(load(Cur, text), Op("load", Len(parseText(text))))

Play == Commit(play(Cur), Op("play", 0))

Pause == Commit(pause(Cur), Op("pause", 0))

Restart == Commit(restart(Cur), Op("restart", 0))

GoToWord(index) == Commit(goToWord(Cur, index), Op("goToWord", index))

NextWord == Commit(next(Cur), Op("next", 0))

PrevWord == Commit(prev(Cur), Op("prev", 0))

Jump(count) == Commit(jump(Cur, count), Op("jump", count))

GetCurrentWord ==
    Commit([getCurrentWord(Cur) EXCEPT !.ret = [ kind |-> "word", value |-> 0 ]],
           Op("getCurrentWord", 0))

SetMode(mode) == Commit(setMode(Cur, mode), Op("setMode", mode))

\* a pending timer expires: its callback runs showNextWord
TimerFires(t) ==
    /\ t \in timers
    /\ Commit(showNextWord([Cur EXCEPT !.timers = @ \ {t}]), Op("timer", t.id))


\* CognitiveEngine.analyzeToken called on a token
AnalyzeToken(token) == Commit(analyzeToken(Cur, token), Op("analyzeToken", 0))

\* CognitiveEngine.updateFatigue called with an event
FatigueEvent(event) ==
    Commit(updateFatigue(Cur, event), Op(event.type, event.duration))

\* CognitiveEngine.reset
ResetMonitor == Commit(reset(Cur), Op("reset", 0))

AdvanceStep == 6 * 60000

\* the clock moves on between two operations
Advance ==
    /\ now + AdvanceStep <= 1 + MaxAdvances * AdvanceStep
    /\ now' = now + AdvanceStep
    /\ UNCHANGED << words, tokens, currentIndex, isPlaying, isPaused, timeoutId,
                    startTime, pausedTime, pauseStartTime, totalPausedDuration,
                    skipCount, config, currentMode, conceptMemory, recentWords,
                    fatigue, comprehension, timers, emitted, ret, threw, analysis,
                    currentWord, history, op >>

(***************************************************************************)
(* Spec: the engine under every interleaving of the public commands and    *)
(* the timer callbacks.  The clock stands still: operations take no time   *)
(* and a callback may run as soon as it is scheduled.                      *)
(***************************************************************************)
Limits ==
    /\ Cardinality(timers) <= MaxTimers
    /\ fatigue.wordsRead <= MaxWordsRead
    /\ fatigue.rewinds <= MaxRewinds
    /\ fatigue.pauses <= MaxPauses
    /\ Len(history) <= MaxHistory

Indexes == { -1, 1, 5 }

Counts == { -1, 2 }

Init == Constructed(DefaultOptions, 1)

Next ==
    \/ \E text \in Texts : Load(text) /\ Limits'
    \/ Play /\ Limits'
    \/ Pause /\ Limits'
    \/ Restart /\ Limits'
    \/ \E index \in Indexes : GoToWord(index) /\ Limits'
    \/ NextWord /\ Limits'
    \/ PrevWord /\ Limits'
    \/ \E count \in Counts : Jump(count) /\ Limits'
    \/ GetCurrentWord /\ Limits'
    \/ \E t \in timers : TimerFires(t) /\ Limits'

Spec == Init /\ [][Next]_vars

(***************************************************************************)
(* SpecPlayback: uninterrupted playback.  A reading mode may be chosen,    *)
(* a text is loaded, play() is called once, and from then on only the      *)
(* scheduled steps run.  SpecPlaybackFair adds that a pending step         *)
(* eventually fires.                                                       *)
(***************************************************************************)
InitPlayback ==
    \E adaptive \in BOOLEAN :
        Constructed([DefaultOptions EXCEPT !.adaptiveMode = adaptive], 1)

NextPlayback ==
    \/ \E mode \in ModeNames : op.name = "new" /\ SetMode(mode)
    \/ \E text \in PlaybackTexts : op.name \in { "new", "setMode" } /\ Load(text)
    \/ op.name = "load" /\ Play
    \/ \E t \in timers : TimerFires(t)

SpecPlayback == InitPlayback /\ [][NextPlayback]_vars

\* a pending step eventually fires: the browser's timer queue runs every callback
\* that is not cancelled
SpecPlaybackFair == SpecPlayback /\ WF_vars(\E t \in timers : TimerFires(t))

(***************************************************************************)
(* SpecAnalyzer: analyzeToken applied to tokens of TokenPool in any order, *)
(* under every mode setMode accepts, from several fatigue levels.          *)
(***************************************************************************)
InitAnalyzer ==
    \E level \in FatigueLevels : ConstructedWith(DefaultOptions, 1, "normal", level)

NextAnalyzer ==
    \/ \E mode \in ModeNames \cup { "turbo", "constructor" } : SetMode(mode)
    \/ \E token \in TokenPool : AnalyzeToken(token) /\ Len(history') <= MaxHistory

SpecAnalyzer == InitAnalyzer /\ [][NextAnalyzer]_vars

(***************************************************************************)
(* SpecFatigue: the fatigue monitor under every sequence of events, with   *)
(* the clock advancing between them.                                       *)
(***************************************************************************)
Events ==
    { Event(type, 0) : type \in { "start", "word", "rewind", "resume" } }
    \cup { Event("pause", duration) : duration \in { 0, 3000, 3001 } }

FatigueLimits ==
    /\ fatigue.wordsRead <= MaxEvents
    /\ fatigue.rewinds <= MaxEvents
    /\ fatigue.pauses <= MaxEvents

NextFatigue ==
    \/ \E event \in Events : FatigueEvent(event) /\ FatigueLimits'
    \/ ResetMonitor
    \/ Advance

SpecFatigue == Init /\ [][NextFatigue]_vars

(***************************************************************************)
(* Properties                                                              *)
(***************************************************************************)
\* load has been called on the engine
Loaded == op.loaded

\* the onWordChange notifications among the callbacks of an operation
WordNotes(notes) == SelectSeq(notes, LAMBDA note : note.type = "word")

\* complete() has run: onComplete fired and the engine is not playing
Completed ==
    /\ ~isPlaying
    /\ \E i \in DOMAIN emitted : emitted[i].type = "complete"

\* the words that went through concept tracking, in order
HistoryWords == [ i \in DOMAIN history |-> history[i].word ]

\* the last n entries of a sequence
LastOf(seq, n) == SubSeq(seq, Len(seq) - n + 1, Len(seq))

\* C1: whenever the engine is not in the playing state (after pause, restart,
\* completion or load), no scheduled step is pending.
C1_NoStepPendingUnlessPlaying == ~isPlaying => timers = {}

\* C1, the failure: a scheduled step fires on a paused engine and shows a word.
C1_WordShownWhilePaused ==
    /\ op.name = "timer"
    /\ ~op.wasPlaying
    /\ isPaused
    /\ WordNotes(emitted) # <<>>

\* C2: in every reachable state at most one scheduled step is pending.
C2_AtMostOneStepPending == Cardinality(timers) <= 1

\* C2, the failure: play() on a playing engine leaves the earlier step live
\* beside the new one.
C2_PlayLeavesEarlierStep ==
    /\ op.name = "play"
    /\ op.wasPlaying
    /\ Cardinality(timers) = 2

\* C3: from the playing state, with no further command and every scheduled
\* step eventually firing, playback eventually reaches completed.
C3_PlaybackCompletes == isPlaying ~> Completed

\* C3, the failure: the cursor is at the end of a non-empty document, the engine
\* is still playing, and no step is pending.
C3_StalledAtEnd ==
    /\ isPlaying
    /\ timers = {}
    /\ Len(words) > 0
    /\ currentIndex = Len(words)
    /\ \A i \in DOMAIN emitted : emitted[i].type # "complete"

\* C4: on any loaded document, the empty one included, the cursor is within
\* [0, wordCount] after any sequence of commands and timer firings.
C4_CursorInRange == Loaded => (0 <= currentIndex /\ currentIndex <= Len(words))

\* C4, the failure: goToWord on the loaded empty document leaves the cursor at -1.
C4_CursorBelowZero ==
    /\ Loaded
    /\ Len(words) = 0
    /\ op.name = "goToWord"
    /\ currentIndex = -1

\* C5: on a loaded document of zero tokens every public command returns
\* without raising an error.
C5_EmptyDocumentCommandsReturn == (Loaded /\ Len(words) = 0) => ~threw

\* C5, the failure: jump on the loaded empty document raises.
C5_JumpRaises ==
    /\ Loaded
    /\ Len(words) = 0
    /\ op.name = "jump"
    /\ threw

\* the step of C6, for a scheduled step or the first step made by play():
\* a step at cursor i on the head of a collocation of length L fires exactly one
\* onWordChange, carrying the L words i..i+L-1 as one phrase, leaves skipCount at
\* L-1 and the cursor at i+1; a step taken while skipCount > 0 fires no
\* onWordChange, advances the cursor by one and decrements skipCount.
CollocationStep ==
    LET token == tokens[currentIndex + 1]
        L     == Len(token.collocation)
        shown == WordNotes(emitted')
    IN  /\ ( /\ op'.name \in { "play", "timer" }
             /\ skipCount = 0
             /\ currentIndex < Len(words)
             /\ token.collocation # <<>> )
           => /\ Len(shown) = 1
              /\ shown[1].word.isCollocation
              /\ shown[1].word.displayText =
                     SubSeq(words, currentIndex + 1, currentIndex + L)
              /\ skipCount' = L - 1
              /\ currentIndex' = currentIndex + 1
        /\ (op'.name = "timer" /\ skipCount > 0)
           => /\ shown = <<>>
              /\ currentIndex' = currentIndex + 1
              /\ skipCount' = skipCount - 1

\* C6: during uninterrupted playback a collocation of length L starting at cursor
\* i is shown by exactly one onWordChange with the joint phrase, skipCount is L-1
\* right after, and the next L-1 steps each advance the cursor by one silently, so
\* the cursor is at i+L before another word is shown.
C6_CollocationShownOnce == [][CollocationStep]_vars

\* C6, the case: "in order to go", after the phrase was shown and two silent
\* steps were taken, the cursor stands on "go" with nothing left to skip.
C6_PhraseSkipped ==
    /\ words = Flatten(TextHead)
    /\ op.name = "timer"
    /\ emitted = <<>>
    /\ currentIndex = 3
    /\ skipCount = 0

\* C7: right after goToWord, next, prev, jump or restart returns on a
\* non-playing engine, skipCount is 0, whatever token the cursor lands on.
C7_SeekClearsSkipCount ==
    ( /\ op.name \in { "goToWord", "next", "prev", "jump", "restart" }
      /\ ~op.wasPlaying
      /\ ~threw )
    => skipCount = 0

\* C7, the failure: goToWord onto the head of a collocation, engine not playing,
\* returns with skipCount at the collocation's length minus one.
C7_SeekOntoCollocation ==
    /\ op.name = "goToWord"
    /\ ~op.wasPlaying
    /\ ~isPlaying
    /\ currentWord.isCollocation
    /\ skipCount = Len(currentWord.displayText) - 1
    /\ skipCount > 0

\* C8: for every token, reading mode, session memory and fatigue level in [0,1],
\* analyzeToken returns a multiplier within [0.5, 3.5].
C8_MultiplierInRange ==
    ~analysis.isNull =>
        /\ analysis.multiplier # NaN
        /\ MinMultiplier <= analysis.multiplier
        /\ analysis.multiplier <= MaxMultiplier

\* C8, the failure: setMode("constructor") is accepted, and the next analysis
\* returns a multiplier that is not a number.
C8_MultiplierNotANumber ==
    /\ op.name = "analyzeToken"
    /\ currentMode = "constructor"
    /\ ~analysis.isNull
    /\ analysis.multiplier = NaN

C10_FatigueLevelInRange ==
    0 <= fatigue.fatigueLevel /\ fatigue.fatigueLevel <= FatigueOne

\* C10, the case: a rewind arrives when the level is already 1.
C10_RewindAtFullFatigue ==
    /\ op.name = "rewind"
    /\ fatigue.rewinds > 0
    /\ fatigue.fatigueLevel = FatigueOne

\* C11: from any fatigue state, a rewind event and a pause event longer than
\* 3000 ms never decrease the fatigue level, and a resume event never
\* increases it.
C11_FatigueEventsMonotone ==
    [][ /\ op'.name = "rewind" => fatigue'.fatigueLevel >= fatigue.fatigueLevel
        /\ (op'.name = "pause" /\ op'.arg > 3000)
              => fatigue'.fatigueLevel >= fatigue.fatigueLevel
        /\ op'.name = "resume" => fatigue'.fatigueLevel <= fatigue.fatigueLevel
      ]_vars

\* C11, the case: a rewind and a long pause raised the level to 0.08 and a
\* resume then lowered it to 0.06.
C11_ResumeAfterLongPause ==
    /\ op.name = "resume"
    /\ fatigue.rewinds = 1
    /\ fatigue.pauses = 1
    /\ fatigue.fatigueLevel = 6

(***************************************************************************)
(* Replay: a token sequence is analysed, the analyzer is reset, and the    *)
(* same sequence is analysed again.  tokens holds the sequence of the      *)
(* first pass, emitted the analyses returned so far by both passes, and    *)
(* op.arg the fatigue level the first pass started from.                    *)
(***************************************************************************)
MaxReplay == 2

MaxReplayRewinds == 7

ReplayTokens ==
    { PlainToken(w, FALSE) : w \in { W_a, W_order, W_although, W_NASA } }
    \cup { PlainToken(W_Furthermore_, TRUE) }

\* analyzeToken(token), its result appended to the analyses returned so far
Returned(s, token) ==
    Bind(analyzeToken(s, token), LAMBDA sa :
        [sa EXCEPT !.emitted =
             Append(emitted, [ type |-> "analysis", analysis |-> sa.analysis ])])

\* a rewind event raises the fatigue level before a pass begins
ReplayRewind ==
    /\ op.name \in { "new", "raise", "reset", "restore" }
    /\ fatigue.rewinds < MaxReplayRewinds
    /\ Commit([updateFatigue(Cur, Event("rewind", 0)) EXCEPT !.emitted = emitted],
              IF op.name \in { "new", "raise" } THEN Op("raise", 0)
              ELSE Op("restore", op.arg))

FirstPass(token) ==
    /\ op.name \in { "new", "raise", "firstPass" }
    /\ Len(tokens) < MaxReplay
    /\ Commit([Returned(Cur, token) EXCEPT !.tokens = Append(@, token)],
              Op("firstPass",
                 IF op.name = "firstPass" THEN op.arg ELSE fatigue.fatigueLevel))

ReplayReset ==
    /\ op.name = "firstPass"
    /\ Commit([reset(Cur) EXCEPT !.emitted = emitted], Op("reset", op.arg))

\* the next token of the first pass is analysed again, once the level is the
\* one the first pass started from
SecondPass ==
    /\ op.name \in { "reset", "restore", "secondPass" }
    /\ op.name # "secondPass" => fatigue.fatigueLevel = op.arg
    /\ Len(emitted) < 2 * Len(tokens)
    /\ Commit(Returned(Cur, tokens[Len(emitted) - Len(tokens) + 1]),
              Op("secondPass", op.arg))

InitReplay == \E mode \in ModeNames : ConstructedWith(DefaultOptions, 1, mode, 0)

NextReplay ==
    \/ ReplayRewind
    \/ \E token \in ReplayTokens : FirstPass(token)
    \/ ReplayReset
    \/ SecondPass

SpecReplay == InitReplay /\ [][NextReplay]_vars

\* C12: analysing the same token sequence twice, each time from a freshly
\* reset analyzer with the same mode and fatigue level, yields the same factor
\* tags and the same multiplier for every token.
C12_ReplayGivesSameAnalyses ==
    \A i \in DOMAIN emitted :
        i > Len(tokens) =>
            /\ emitted[i].analysis.factors = emitted[i - Len(tokens)].analysis.factors
            /\ emitted[i].analysis.multiplier
                   = emitted[i - Len(tokens)].analysis.multiplier

\* C12, the case: a word analysed twice in a row (first occurrence, then
\* recent repeat) at a fatigue level above 0.3 has been replayed in full.
C12_RepeatedWordReplayed ==
    /\ op.name = "secondPass"
    /\ Len(tokens) = MaxReplay
    /\ Len(emitted) = 2 * MaxReplay
    /\ tokens[1] = tokens[2]
    /\ Includes(emitted[3].analysis.factors, "first-occurrence")
    /\ Includes(emitted[4].analysis.factors, "recent-repeat")
    /\ Includes(emitted[4].analysis.factors, "fatigue-adjusted")

(***************************************************************************)
(* Comprehension: getComprehension() after a reading session that left the *)
(* counters and the fatigue level given.                                    *)
(***************************************************************************)
WordsReadCounts == { 0, 1, 20, 100 }

RewindCounts == { 0, 1, 5, 6 }

PauseCounts == { 0, 1, 3, 4 }

SessionLevels == { 0, 50, 51, 70, 71, FatigueOne }

GetComprehension == Commit(getComprehension(Cur), Op("getComprehension", 0))

InitComprehension ==
    \E wordsRead \in WordsReadCounts, rewindCount \in RewindCounts,
       pauseCount \in PauseCounts, level \in SessionLevels :
        ConstructedIn(DefaultOptions, 1, "normal",
                      [InitialFatigue EXCEPT !.wordsRead = wordsRead,
                                             !.rewinds = rewindCount,
                                             !.pauses = pauseCount,
                                             !.fatigueLevel = level],
                      [InitialComprehension EXCEPT !.rewindCount = rewindCount,
                                                   !.pauseCount = pauseCount])

NextComprehension == GetComprehension

SpecComprehension == InitComprehension /\ [][NextComprehension]_vars

\* C13: assessComprehension returns score = 1.0, minus 0.2 if
\* rewindCount / max(1, wordsRead) > 0.05, minus 0.1 if
\* pauseCount / max(1, wordsRead) > 0.03, minus 0.2 if fatigueLevel > 0.5, with
\* suggestSlowdown = (score < 0.7) and suggestBreak = (score < 0.5 or
\* fatigueLevel > 0.7); wordsRead 100, rewindCount 6, no pauses and zero
\* fatigue give score 0.8 with neither suggestion.
C13_ComprehensionScore ==
    op.name = "getComprehension" =>
        LET reads    == IF fatigue.wordsRead > 1 THEN fatigue.wordsRead ELSE 1
            rewinds  == IF 20 * comprehension.rewindCount > reads THEN 20 ELSE 0
            pauses   == IF 100 * comprehension.pauseCount > 3 * reads THEN 10 ELSE 0
            tired    == IF 2 * fatigue.fatigueLevel > FatigueOne THEN 20 ELSE 0
            expected == 100 - rewinds - pauses - tired
        IN  /\ ret.value.score = expected
            /\ ret.value.suggestSlowdown = (expected < 70)
            /\ ret.value.suggestBreak
                   = (expected < 50 \/ 10 * fatigue.fatigueLevel > 7 * FatigueOne)
            /\ ( /\ fatigue.wordsRead = 100
                 /\ comprehension.rewindCount = 6
                 /\ comprehension.pauseCount = 0
                 /\ fatigue.fatigueLevel = 0 )
               => ret.value = [ score |-> 80, suggestSlowdown |-> FALSE,
                                suggestBreak |-> FALSE ]

\* C13, the case: the assessment after 100 words, 6 rewinds, no pause and no
\* fatigue.
C13_SixRewindsInHundredWords ==
    /\ op.name = "getComprehension"
    /\ fatigue.wordsRead = 100
    /\ comprehension.rewindCount = 6
    /\ comprehension.pauseCount = 0
    /\ fatigue.fatigueLevel = 0
    /\ ret.value.score = 80

(***************************************************************************)
(* Configuration: the rate given to the constructor, to setWPM and to      *)
(* updateConfig, and a short text played at the configured rate.           *)
(***************************************************************************)
\* the rates asked for; 0 in the constructor's options stands for no wpm option
Wpms == { 10, 50, 300, 1500, 5000 }

NewConfigs ==
    { [ wpm |-> wpm ] : wpm \in Wpms }
    \cup { [ adaptiveMode |-> enabled ] : enabled \in BOOLEAN }

SetWPM(wpm) == Commit(setWPM(Cur, wpm), Op("setWPM", wpm))

UpdateConfig(newConfig) ==
    Commit(updateConfig(Cur, newConfig), Op("updateConfig", 0))

InitConfig ==
    \E wpm \in Wpms \cup { 0 } : Constructed([DefaultOptions EXCEPT !.wpm = wpm], 1)

NextConfig ==
    \/ \E wpm \in Wpms : SetWPM(wpm)
    \/ \E newConfig \in NewConfigs : UpdateConfig(newConfig)
    \/ ~Loaded /\ Load(TextPlain)
    \/ Loaded /\ ~isPlaying /\ fatigue.wordsRead = 0 /\ Play
    \/ \E t \in timers : TimerFires(t)

SpecConfig == InitConfig /\ [][NextConfig]_vars

\* C14: whichever way a words-per-minute value is supplied (constructor
\* options, setWPM, updateConfig), the configured rate is within [50, 1500] in
\* every reachable state.
C14_WpmWithinRange == 50 <= config.wpm /\ config.wpm <= 1500

\* C14, the case: updateConfig was given a rate of 5000 and a word is then
\* scheduled at that rate.
C14_PlayingAtUnclampedRate ==
    /\ op.name = "play"
    /\ config.wpm = 5000
    /\ \E t \in timers : t.delay < 60000 \div 1500

\* C14, the case that holds: setWPM clamps the rate it is given.
C14_SetWpmClamps ==
    op.name = "setWPM" =>
        /\ config.wpm = Max(50, Min(1500, op.arg))
        /\ ret = NumRet(config.wpm)

\* C15: setMode called with any name other than scan, normal, study or
\* proofread returns null and leaves the current reading mode unchanged.
C15_UnknownModeRejected ==
    [][ (op'.name = "setMode" /\ op'.arg \notin ModeNames)
            => (ret'.kind = "null" /\ currentMode' = currentMode) ]_vars

\* C15, the case: setMode('constructor') returned a value and became the
\* current mode.
C15_InheritedNameAccepted ==
    /\ op.name = "setMode"
    /\ op.arg = "constructor"
    /\ ret.kind = "mode"
    /\ currentMode = "constructor"

\* C15, the case that holds: a name that is no property of the mode table at
\* all is rejected.
C15_AbsentNameRejected ==
    [][ (op'.name = "setMode" /\ ~HasMode(op'.arg))
            => (ret'.kind = "null" /\ currentMode' = currentMode) ]_vars

(***************************************************************************)
(* Navigation: the commands of a reading session in which play() is only   *)
(* called on an engine that is not playing.                                 *)
(***************************************************************************)
NavTexts == { EmptyText, TextPlain, TextTail }

\* the commands of such a session over the texts given
NavigateOver(texts) ==
    \/ \E text \in texts : Load(text) /\ Limits'
    \/ ~isPlaying /\ Play /\ Limits'
    \/ Pause /\ Limits'
    \/ Restart /\ Limits'
    \/ \E index \in Indexes : GoToWord(index) /\ Limits'
    \/ NextWord /\ Limits'
    \/ PrevWord /\ Limits'
    \/ \E count \in Counts : Jump(count) /\ Limits'
    \/ GetCurrentWord /\ Limits'
    \/ \E t \in timers : TimerFires(t) /\ Limits'

NextNavigate == NavigateOver(NavTexts)

SpecNavigate == Init /\ [][NextNavigate]_vars

\* the same session over the texts that hold a phrase of three and of two words
NextPhrases == NavigateOver({ TextHead, TextTail })

SpecPhrases == Init /\ [][NextPhrases]_vars

\* C16: on a non-playing engine holding n >= 1 tokens, goToWord(i) leaves the
\* cursor at min(max(i, 0), n-1) and jump(d) leaves it at
\* min(max(cursor + d, 0), n-1).
C16_SeekClampsCursor ==
    [][ (~isPlaying /\ Len(words) >= 1) =>
          /\ op'.name = "goToWord"
                => currentIndex' = Min(Max(op'.arg, 0), Len(words) - 1)
          /\ op'.name = "jump"
                => currentIndex' = Min(Max(currentIndex + op'.arg, 0), Len(words) - 1)
      ]_vars

\* C16, the case: goToWord(5) on a paused engine holding three tokens left the
\* cursor on the last one.
C16_SeekPastEnd ==
    /\ op.name = "goToWord"
    /\ op.arg = 5
    /\ ~op.wasPlaying
    /\ Len(words) = 3
    /\ currentIndex = 2

\* C17: every call to prev() and every call to jump(d) with d < 0 fires exactly
\* one rewind fatigue event (the rewind counters increase by exactly 1),
\* whatever the cursor position and however many words are skipped.
C17_OneRewindPerBackwardCall ==
    [][ (op'.name = "prev" \/ (op'.name = "jump" /\ op'.arg < 0)) =>
          /\ fatigue'.rewinds = fatigue.rewinds + 1
          /\ comprehension'.rewindCount = comprehension.rewindCount + 1
      ]_vars

\* C17, the case: prev() was called with the cursor on the first word and no
\* rewind has been counted.
C17_PrevAtStartCountsNothing ==
    /\ op.name = "prev"
    /\ Loaded
    /\ Len(words) >= 1
    /\ currentIndex = 0
    /\ fatigue.rewinds = 0
    /\ comprehension.rewindCount = 0

\* C17, the cases that hold: jump(d) with d < 0 counts one rewind at any cursor
\* position, and prev() counts one when the cursor is past the first word.
C17_OneRewindPerBackwardMove ==
    [][ ((op'.name = "prev" /\ currentIndex > 0) \/ (op'.name = "jump" /\ op'.arg < 0)) =>
          /\ fatigue'.rewinds = fatigue.rewinds + 1
          /\ comprehension'.rewindCount = comprehension.rewindCount + 1
      ]_vars

\* a step that leaves the engine as it was and notifies nobody
NoOpStep ==
    /\ UNCHANGED << words, tokens, currentIndex, isPlaying, isPaused, skipCount,
                    timeoutId, timers, startTime, pausedTime, pauseStartTime,
                    totalPausedDuration, fatigue, comprehension, config,
                    currentMode, conceptMemory, recentWords >>
    /\ emitted' = <<>>

\* C18: play() on an engine with zero tokens, and pause() on an engine that is
\* not playing, are no-ops: cursor, isPlaying, isPaused, skipCount, pending
\* timer, timing bookkeeping, fatigue and comprehension counters are unchanged
\* and no notification is emitted.
C18_RefusedCommandsChangeNothing ==
    [][ ( \/ op'.name = "play" /\ Len(words) = 0
          \/ op'.name = "pause" /\ ~isPlaying )
            => (NoOpStep /\ ret' = BoolRet(FALSE)) ]_vars

\* C18, the case: pause() was called on an engine that a first pause() had
\* already stopped, and the single pause is all that was counted.
C18_PauseWhilePaused ==
    /\ op.name = "pause"
    /\ ~op.wasPlaying
    /\ ret = BoolRet(FALSE)
    /\ isPaused
    /\ pausedTime # Null
    /\ fatigue.pauses = 1

\* C19: once the engine has reached completed it stays completed (no word
\* notification, not playing, cursor unchanged) until restart() or load() is
\* called; no other command leaves the completed state.
C19_CompletedIsTerminal ==
    [][ (Completed /\ op'.name \notin { "restart", "load" })
            => /\ WordNotes(emitted') = <<>>
               /\ ~isPlaying'
               /\ currentIndex' = currentIndex ]_vars

\* C19, the case: the two-word text was read to completion (only then is the
\* cursor past its last word) and prev() moved back onto the last word and
\* announced it.
C19_PrevAfterCompletion ==
    /\ op.name = "prev"
    /\ ~op.wasPlaying
    /\ words = Flatten(TextPlain)
    /\ currentIndex = Len(words) - 1
    /\ WordNotes(emitted) # <<>>

\* the callbacks of an operation by type, onAnalysis left out
Kinds(notes) ==
    LET shown == SelectSeq(notes, LAMBDA note : note.type # "analysis")
    IN  [ i \in DOMAIN shown |-> shown[i].type ]

\* the callbacks of the advance step the last operation ran: all of a timer
\* callback, and what follows the 'playing' state change of a play()
StepNotes ==
    IF op.name = "timer" THEN SelectSeq(emitted, LAMBDA note : note.type # "analysis")
    ELSE IF op.name = "play" /\ emitted # <<>>
    THEN Tail(SelectSeq(emitted, LAMBDA note : note.type # "analysis"))
    ELSE <<>>

\* C20: within a single advance step (showNextWord) the notifications come in
\* the order onWordChange, onProgress, then onStateChange (completed) and
\* onComplete; no progress or state-change notification of a step precedes
\* that step's onWordChange.
C20_StepNotificationOrder ==
    /\ Kinds(StepNotes) \in { <<>>,
                              << "word", "progress" >>,
                              << "word", "progress", "state", "complete" >>,
                              << "state", "complete" >> }
    /\ \A i \in DOMAIN StepNotes :
           StepNotes[i].type = "state" => StepNotes[i].state = "completed"

\* C20, the case: a timer step showed the last word, reported progress and
\* completed the session.
C20_LastWordStep ==
    /\ op.name = "timer"
    /\ Kinds(emitted) = << "word", "progress", "state", "complete" >>
    /\ currentIndex = Len(words)

(***************************************************************************)
(* ORP: calculateORP on a word, with no analysis or with an analysis       *)
(* carrying an offset hint.  The word and the triple returned are left in  *)
(* currentWord.                                                             *)
(***************************************************************************)
MaxOrpWord == 4

OrpChars == { "a", "1", "_", ".", "-" }

OrpWords ==
    UNION { [ 1..n -> OrpChars ] : n \in 0..MaxOrpWord }

OrpOffsets == { -1, 0, 1, 2 }

OrpAnalyses ==
    { NoAnalysis }
    \cup { [NoAnalysis EXCEPT !.isNull = FALSE, !.multiplier = One,
                              !.orpOffset = offset] : offset \in OrpOffsets }

CalculateORP(word, a) ==
    Commit(Bind(calculateORP(word, a), LAMBDA orp :
               [Cur EXCEPT !.currentWord =
                    [NoWord EXCEPT !.isNull = FALSE, !.word = word,
                                   !.prefix = orp.prefix, !.focus = orp.focus,
                                   !.suffix = orp.suffix, !.analysis = a]]),
           Op("calculateORP", a.orpOffset))

\* one call on a new engine
NextOrp ==
    /\ op.name = "new"
    /\ \E word \in OrpWords, a \in OrpAnalyses : CalculateORP(word, a)

SpecOrp == Init /\ [][NextOrp]_vars

\* the word with everything but letters and digits removed
AlphanumericForm(word) ==
    SelectSeq(word, LAMBDA c : c \in Lower \cup Upper \cup Digit)

\* the whole word is the focus
WholeWordFocus ==
    /\ currentWord.prefix = <<>>
    /\ currentWord.focus = currentWord.word
    /\ currentWord.suffix = <<>>

\* C21 as stated: for every word whose alphanumeric-only form has length 0 or
\* 1, the ORP calculator returns empty prefix and suffix and a focus equal to
\* the whole original word, for every offset hint.
C21_AlphanumericShortWordIsFocus ==
    (op.name = "calculateORP" /\ Len(AlphanumericForm(currentWord.word)) <= 1)
        => WholeWordFocus

\* C21, amended: for every word holding at most one word character (letter,
\* digit or underscore, the class \w), the ORP calculator returns empty prefix
\* and suffix and a focus equal to the whole original word, for every offset
\* hint.
C21_ShortWordIsFocus ==
    (op.name = "calculateORP" /\ Len(StripNonWord(currentWord.word)) <= 1)
        => WholeWordFocus

\* C21, the case: "-a." with an offset hint of 2 is returned whole as the focus.
C21_PunctuatedLetterWithHint ==
    /\ op.name = "calculateORP"
    /\ currentWord.word = << "-", "a", "." >>
    /\ currentWord.analysis.orpOffset = 2
    /\ currentWord.focus = << "-", "a", "." >>

(***************************************************************************)
(* Durations: getWordDuration with adaptive mode off, at every rate that   *)
(* setWPM lets through.                                                     *)
(***************************************************************************)
MinWpm == 50

MaxWpm == 1500

W_is == << "i", "s" >>

\* words without punctuation, of both length classes
BareWords == { W_is, W_go, W_Hello, << "w", "o", "r", "l", "d" >>, W_internationalization }

\* the same words ending a sentence
SentenceEnds == { w \o << c >> : w \in BareWords, c \in Terminator }

\* longer than longWordThreshold or not
LengthClass(word) == Len(StripNonWord(word)) > longWordThreshold

GetWordDuration(word) ==
    Commit([Cur EXCEPT !.currentWord = [NoWord EXCEPT !.isNull = FALSE, !.word = word],
                       !.ret = NumRet(getWordDuration(config, word, NoAnalysis))],
           Op("getWordDuration", 0))

InitDuration ==
    \E wpm \in MinWpm..MaxWpm, extra \in BOOLEAN :
        Constructed([DefaultOptions EXCEPT !.wpm = wpm, !.adaptiveMode = FALSE,
                                           !.extraTimeForLongWords = extra], 1)

\* one call on a new engine
NextDuration ==
    /\ op.name = "new"
    /\ \E word \in BareWords \cup SentenceEnds : GetWordDuration(word)

SpecDuration == InitDuration /\ [][NextDuration]_vars

\* C22: with adaptive mode off and punctuation pauses on, for every rate in
\* [50, 1500] the computed duration of a word ending in '.', '!' or '?' is
\* strictly longer than that of an unpunctuated word of the same length class
\* (here: longer by more than the 1 ms that rounding in doubles can take off).
C22_SentenceEndTakesLonger ==
    (op.name = "getWordDuration" /\ currentWord.word \in SentenceEnds) =>
        \A bare \in BareWords :
            LengthClass(bare) = LengthClass(currentWord.word)
                => ret.value - 1 > getWordDuration(config, bare, NoAnalysis)

\* C22, the case: "world." at 300 WPM takes 360 ms where "is" takes 200 ms.
C22_WorldAt300 ==
    /\ op.name = "getWordDuration"
    /\ config.wpm = 300
    /\ currentWord.word = W_world_
    /\ ret.value = 360
    /\ getWordDuration(config, W_is, NoAnalysis) = 200

(***************************************************************************)
(* Timed playback: a six-token text is played at the default 300 wpm with  *)
(* adaptive mode off, and every scheduled step fires exactly when its      *)
(* delay has elapsed.                                                       *)
(***************************************************************************)
\* six tokens, each "go" or "world."
SixTokenTexts == { << tokens6 >> : tokens6 \in [ 1..6 -> { W_go, W_world_ } ] }

\* the pending timer expires after exactly its delay
TimerFiresOnTime(t) ==
    /\ t \in timers
    /\ Commit(showNextWord([Cur EXCEPT !.timers = @ \ {t}, !.now = @ + t.delay]),
              Op("timer", t.id))

InitTimed == Constructed([DefaultOptions EXCEPT !.adaptiveMode = FALSE], 1)

NextTimed ==
    \/ \E text \in SixTokenTexts : op.name = "new" /\ Load(text)
    \/ op.name = "load" /\ Play
    \/ \E t \in timers : TimerFiresOnTime(t)

SpecTimed == InitTimed /\ [][NextTimed]_vars

\* C23: when a six-token text is played at 300 wpm (adaptive off) to the end,
\* every step firing exactly at its computed delay and without pauses, the
\* completion statistics report wordCount = 6 and an actualWPM within a small
\* tolerance (here one tenth) of 300.
C23_ActualWpmNear300 ==
    Completed =>
        \A i \in DOMAIN emitted :
            emitted[i].type = "complete" =>
                /\ emitted[i].stats.wordCount = 6
                /\ 10 * emitted[i].stats.actualWPM >= 9 * DefaultWpm
                /\ 10 * emitted[i].stats.actualWPM <= 11 * DefaultWpm

\* C23, the case: "go go go go go go" completed 1000 ms after play() and the
\* statistics report 360 words per minute.
C23_SixWordsInOneSecond ==
    /\ Completed
    /\ words = [ i \in 1..6 |-> W_go ]
    /\ \E i \in DOMAIN emitted :
           /\ emitted[i].type = "complete"
           /\ emitted[i].stats.wordCount = 6
           /\ emitted[i].stats.durationMs = 1000
           /\ emitted[i].stats.actualWPM = 360

\* C24: in every reachable state skipCount is non-negative, is strictly less
\* than the length of the collocation that set it (one that starts at or
\* before the cursor and reaches at least to cursor + skipCount), and never
\* exceeds the remaining tokens: cursor + skipCount <= wordCount.
C24_SkipCountWithinCollocation ==
    /\ skipCount >= 0
    /\ currentIndex + skipCount <= Len(words)
    /\ skipCount > 0 =>
           \E j \in DOMAIN tokens :
               /\ tokens[j].collocation # <<>>
               /\ skipCount < Len(tokens[j].collocation)
               /\ j - 1 <= currentIndex
               /\ currentIndex + skipCount <= (j - 1) + Len(tokens[j].collocation)

\* C24, the case: after stepping back to the start of "in order to go", play()
\* showed "in order to" as one phrase, the cursor moved on by one and two words
\* of the phrase remain to be skipped.
C24_TwoWordsLeftToSkip ==
    /\ op.name = "play"
    /\ op.wasPlaying = FALSE
    /\ fatigue.rewinds > 0
    /\ words = Flatten(TextHead)
    /\ currentIndex = 1
    /\ skipCount = 2

\* the step's callbacks begin with onStateChange(playing) followed by
\* onWordChange for the token at the cursor (the first token when the cursor
\* was past the end), onAnalysis left out
PlayShowsWordAtCursor ==
    LET notes == SelectSeq(emitted', LAMBDA note : note.type # "analysis")
        at    == IF currentIndex >= Len(words) THEN 0 ELSE currentIndex
    IN  /\ Len(notes) >= 2
        /\ notes[1] = StateChange("playing")
        /\ notes[2].type = "word"
        /\ notes[2].word.index = at
        /\ notes[2].word.word = words[at + 1]

\* C25 as stated: play() on an engine holding at least one token emits
\* onStateChange(playing) and then, before returning, an onWordChange for the
\* token at the cursor, from whatever non-playing state play() is called.
C25_PlayShowsWordAtOnce ==
    [][ (op'.name = "play" /\ ~isPlaying /\ Len(words) >= 1)
            => PlayShowsWordAtCursor ]_vars

\* C25, amended: play() on an engine holding at least one token, called in a
\* non-playing state in which no word of a phrase is left to skip
\* (skipCount = 0), emits onStateChange(playing) and then, before returning,
\* an onWordChange for the token at the cursor.
C25_PlayShowsWordUnlessSkipping ==
    [][ (op'.name = "play" /\ ~isPlaying /\ Len(words) >= 1 /\ skipCount = 0)
            => PlayShowsWordAtCursor ]_vars

\* C25, the case: play() resumed a paused engine and showed the word at the
\* cursor at once.
C25_ResumedWithWord ==
    /\ op.name = "play"
    /\ ~op.wasPlaying
    /\ fatigue.pauses = 1
    /\ Len(emitted) >= 2
    /\ emitted[1] = StateChange("playing")
    /\ WordNotes(emitted) # <<>>
    /\ WordNotes(emitted)[1].word.index = currentIndex - 1

\* C26: immediately after load() or restart() returns, wordsRead, the rewind
\* and pause counters of both the fatigue and the comprehension record, and
\* the fatigue level are all 0, whatever happened before the call.
C26_CountersZeroAfterReset ==
    op.name \in { "load", "restart" } =>
        /\ fatigue.wordsRead = 0
        /\ fatigue.rewinds = 0
        /\ fatigue.pauses = 0
        /\ fatigue.fatigueLevel = 0
        /\ comprehension.rewindCount = 0
        /\ comprehension.pauseCount = 0

\* C26, the case: restart() was called while playing; the pause it performs
\* first (isPaused is still set) has been counted and wiped again.
C26_RestartWhilePlaying ==
    /\ op.name = "restart"
    /\ op.wasPlaying
    /\ isPaused
    /\ fatigue.pauses = 0
    /\ comprehension.pauseCount = 0

\* C27: after restart() returns the engine is in the loaded state: isPlaying
\* and isPaused are both false and the cursor is 0, whether restart was called
\* while playing, paused, loaded or completed.
C27_RestartReturnsToLoaded ==
    op.name = "restart" => (~isPlaying /\ ~isPaused /\ currentIndex = 0)

\* C27, the case: restart() was called on a paused engine and isPaused is
\* still set.
C27_StillPausedAfterRestart ==
    /\ op.name = "restart"
    /\ ~op.wasPlaying
    /\ ~isPlaying
    /\ isPaused
    /\ currentIndex = 0
    /\ pausedTime = Null
    /\ pauseStartTime # Null

\* C27, the part that holds: after restart() the engine is not playing and
\* the cursor is 0.
C27_RestartStopsAtStart ==
    op.name = "restart" => (~isPlaying /\ currentIndex = 0)

\* C28: the fatigue level only rises from elapsed time, rewinds and long
\* pauses: a word event never lowers it, so the level decreases only on a
\* resume event or on a reset/start.
C28_LevelFallsOnlyOnResumeOrReset ==
    [][ fatigue'.fatigueLevel < fatigue.fatigueLevel
            => op'.name \in { "resume", "reset", "start" } ]_vars

\* C28, the case: six minutes after the start a word event has set the level
\* to the time-based 0.05 although two rewinds (0.05 each) are counted.
C28_WordEventOverwritesLevel ==
    /\ op.name = "word"
    /\ fatigue.startTime # Null
    /\ now - fatigue.startTime = AdvanceStep
    /\ fatigue.rewinds = 2
    /\ fatigue.fatigueLevel = TimeFatigue(AdvanceStep)
    /\ fatigue.fatigueLevel < 2 * 5

\* C28, the part that holds: within the first five minutes after the start a
\* word event leaves the level as it is.
C28_WordEventKeepsLevelEarly ==
    [][ ( /\ op'.name = "word"
          /\ (fatigue.startTime = Null \/ now - fatigue.startTime <= 300000) )
            => fatigue'.fatigueLevel = fatigue.fatigueLevel ]_vars

(***************************************************************************)
(* Pauses: a reading session in which time passes once, while the engine   *)
(* is paused, for exactly 3000 ms or for 3001 ms.                           *)
(***************************************************************************)
PauseLengths == { 3000, 3001 }

\* the clock moves on while the engine is paused
Wait(duration) ==
    /\ isPaused
    /\ ~isPlaying
    /\ pausedTime = now
    /\ now = 1
    /\ Commit([Cur EXCEPT !.now = @ + duration], Op("wait", duration))

NextPauses ==
    \/ NavigateOver({ TextPlain })
    \/ \E duration \in PauseLengths : Wait(duration)

SpecPauses == Init /\ [][NextPauses]_vars

\* C29: when the engine is paused with pause() and resumed with play() more
\* than 3000 ms later, the fatigue level receives the long-pause increase of
\* 0.03 (capped at 1) for that pause; a pause of at most 3000 ms adds nothing.
\* In both cases the resume itself takes off 0.02 (floored at 0).
C29_LongPauseRaisesLevel ==
    [][ (op'.name = "play" /\ isPaused /\ pausedTime # Null /\ pauseStartTime # Null)
            => fatigue'.fatigueLevel =
                   Max(0, (IF now - pauseStartTime > 3000
                           THEN Min(FatigueOne, fatigue.fatigueLevel + 3)
                           ELSE fatigue.fatigueLevel) - 2) ]_vars

\* C29, the case: the only pause of the session lasted 3001 ms, play() has
\* resumed, and the one rewind's 0.05 has become 0.03.
C29_LongPauseAddedNothing ==
    /\ op.name = "play"
    /\ totalPausedDuration = 3001
    /\ fatigue.pauses = 1
    /\ fatigue.rewinds = 1
    /\ fatigue.fatigueLevel = 3

\* C29, the part that holds: a pause of at most 3000 ms adds nothing.
C29_ShortPauseAddsNothing ==
    [][ ( /\ op'.name = "play" /\ isPaused /\ pausedTime # Null
          /\ pauseStartTime # Null /\ now - pauseStartTime <= 3000 )
            => fatigue'.fatigueLevel = Max(0, fatigue.fatigueLevel - 2) ]_vars

(***************************************************************************)
(* Revisit: one long document read by hand, forward with next() and back   *)
(* with prev(), goToWord() and jump(), far enough for the recent window to *)
(* fill and evict.                                                         *)
(***************************************************************************)
MaxRevisit == 28

\* no word has gone through concept tracking twice since the last reset
NoRevisitYet ==
    Cardinality({ history[i].word : i \in DOMAIN history }) = Len(history)

RevisitLimits ==
    /\ Len(history) <= MaxRevisit
    /\ fatigue.pauses <= MaxPauses
    /\ Cardinality(timers) <= MaxTimers

\* one step back per session, from any place, then forward again
NextRevisit ==
    \/ op.name = "new" /\ Load(LongText)
    \/ ~isPlaying /\ NextWord /\ RevisitLimits'
    \/ NoRevisitYet /\ PrevWord /\ RevisitLimits'
    \/ NoRevisitYet /\ currentIndex > 0 /\ GoToWord(currentIndex - 1) /\ RevisitLimits'
    \/ NoRevisitYet /\ currentIndex > 0 /\ Jump(-1) /\ RevisitLimits'
    \/ op.name # "new" /\ Restart /\ RevisitLimits'
    \/ op.name = "load" /\ Play /\ RevisitLimits'
    \/ isPlaying /\ Pause /\ RevisitLimits'
    \/ \E t \in timers : TimerFires(t) /\ RevisitLimits'

SpecRevisit == Init /\ [][NextRevisit]_vars

\* the window w1 continues the window w0: what is left of w0 after dropping
\* its oldest entries opens w1, and entries are dropped only from a full window
ContinuesWindow(w0, w1) ==
    \E dropped \in 0..Len(w0) :
        /\ Len(w1) >= Len(w0) - dropped
        /\ \A i \in 1..(Len(w0) - dropped) : w1[i] = w0[dropped + i]
        /\ dropped > 0 => Len(w1) = recentWindowSize

\* C30: between resets (load, restart, destroy) no operation removes an entry
\* from the concept counts or lowers its count, and none removes a word from
\* the recent window other than by eviction of the oldest entries of a full
\* window; prev, goToWord and a negative jump un-learn nothing.
C30_NothingUnlearned ==
    [][ op'.name \notin { "load", "restart" } =>
          /\ \A w \in DOMAIN conceptMemory :
                /\ w \in DOMAIN conceptMemory'
                /\ conceptMemory'[w] >= conceptMemory[w]
          /\ ContinuesWindow(recentWords, recentWords') ]_vars

\* C30, the case: prev() has gone back to a word read before, and the word
\* is scored recent-repeat, its count now 2.
C30_RevisitedWordIsRecentRepeat ==
    /\ op.name = "prev"
    /\ Len(history) >= 2
    /\ history[Len(history)].tag = "recent-repeat"
    /\ history[Len(history)].word \in DOMAIN conceptMemory
    /\ conceptMemory[history[Len(history)].word] = 2

\* C30, eviction: the full window has dropped its oldest entry after a step
\* back, and every concept learned is still counted.
C30_WindowEvictedAfterRewind ==
    /\ fatigue.rewinds > 0
    /\ Len(history) > recentWindowSize
    /\ Len(recentWords) = recentWindowSize
    /\ \A i \in 1..Len(history) : history[i].word \in DOMAIN conceptMemory

\* C31: every key of the concept counts is a content word: its normalized
\* length is greater than 4 and it is not a member of the high-frequency set,
\* after any sequence of analyzed tokens.
C31_ConceptKeysAreContentWords ==
    \A w \in DOMAIN conceptMemory : Len(w) > 4 /\ w \notin highFrequency

\* C31, the case: "there", a high-frequency word of five letters, was analyzed
\* twice in a row and the recent-repeat branch gave it a concept count.
C31_HighFrequencyWordCounted ==
    /\ op.name = "analyzeToken"
    /\ Len(history) = 2
    /\ history[1].word = W_there
    /\ history[2] = [ word |-> W_there, tag |-> "recent-repeat" ]
    /\ W_there \in highFrequency
    /\ W_there \in DOMAIN conceptMemory

\* C31, the part that holds: every key is longer than 4 characters.
C31_ConceptKeysAreLong ==
    \A w \in DOMAIN conceptMemory : Len(w) > 4

\* the analyses of w since the last reset
Visits(w) == Cardinality({ i \in DOMAIN history : history[i].word = w })

C32_ConceptCountWithinVisits ==
    \A i \in DOMAIN history :
        history[i].word \notin highFrequency =>
            /\ history[i].word \in DOMAIN conceptMemory
            /\ conceptMemory[history[i].word] >= 1
            /\ conceptMemory[history[i].word] <= Visits(history[i].word)

\* prefix + focus + suffix of the last ORP result
OrpConcatenation == currentWord.prefix \o currentWord.focus \o currentWord.suffix

\* C33: for every word and every offset hint, the ORP result concatenates back
\* to the original unstripped word: prefix + focus + suffix equals the word,
\* including words with leading or trailing punctuation and words whose
\* alphanumeric length is 2.
C33_OrpConcatenatesToWord ==
    op.name = "calculateORP" => OrpConcatenation = currentWord.word

\* C33, the case: "a1." has two word characters and one trailing mark; the
\* result is "a" + "1" + "" and the mark is lost.
C33_TrailingMarkLost ==
    /\ op.name = "calculateORP"
    /\ currentWord.word = << "a", "1", "." >>
    /\ Len(StripNonWord(currentWord.word)) = 2
    /\ currentWord.prefix = << "a" >>
    /\ currentWord.focus = << "1" >>
    /\ currentWord.suffix = <<>>

\* C33, the part that holds: a word whose stripped form does not have length 2
\* is split without loss.
C33_OrpConcatenatesUnlessTwo ==
    (op.name = "calculateORP" /\ Len(StripNonWord(currentWord.word)) # 2)
        => OrpConcatenation = currentWord.word

\* the base position the calculator starts from, by stripped length
OrpBase(length) ==
    IF length <= 4 THEN 1
    ELSE IF length <= 8 THEN 2
    ELSE IF length <= 12 THEN 3
    ELSE length \div 4

\* C34: for every word with alphanumeric length >= 3 and every offset hint, the
\* focus is the alphanumeric character at clean index
\* clamp(base + orpOffset, 0, cleanLength - 1); punctuation in the original
\* word is never counted toward the index and never becomes the focus.
C34_FocusIsCleanCharacter ==
    LET clean == StripNonWord(currentWord.word)
        index == Max(0, Min(Len(clean) - 1, OrpBase(Len(clean)) + op.arg))
    IN  (op.name = "calculateORP" /\ Len(clean) >= 3) =>
            /\ currentWord.focus = << clean[index + 1] >>
            /\ Len(StripNonWord(currentWord.prefix)) = index

\* C34, the case: in "a.aa" the clean index is 1, the walk stops right after
\* the first letter, and the full stop becomes the focus.
C34_MarkBecomesFocus ==
    /\ op.name = "calculateORP"
    /\ op.arg = 0
    /\ currentWord.word = << "a", ".", "a", "a" >>
    /\ currentWord.prefix = << "a" >>
    /\ currentWord.focus = << "." >>
    /\ currentWord.suffix = << "a", "a" >>

\* C34, the part that holds: marks are not counted, the prefix always holds
\* as many word characters as the clean index says.
C34_PrefixHoldsIndexCharacters ==
    LET clean == StripNonWord(currentWord.word)
        index == Max(0, Min(Len(clean) - 1, OrpBase(Len(clean)) + op.arg))
    IN  (op.name = "calculateORP" /\ Len(clean) >= 3) =>
            Len(StripNonWord(currentWord.prefix)) = index

(***************************************************************************)
(* Preprocess: load() of every text of up to MaxParagraphs paragraphs of   *)
(* up to MaxParagraphWords words.  text.split(/\n\s*\n/) gives a paragraph *)
(* without words only where the text begins or ends with blank lines.      *)
(***************************************************************************)
MaxParagraphs == 3

MaxParagraphWords == 2

Paragraphs ==
    UNION { [ 1..n -> { W_go, W_on } ] : n \in 0..MaxParagraphWords }

ParagraphTexts ==
    { text \in UNION { [ 1..n -> Paragraphs ] : n \in 1..MaxParagraphs } :
          \A p \in 2..(Len(text) - 1) : text[p] # <<>> }

NextPreprocess ==
    /\ op.name = "new"
    /\ \E text \in ParagraphTexts : Load(text)

SpecPreprocess == Init /\ [][NextPreprocess]_vars

\* the positions of the tokens that carry the last-overall flag
LastWordFlags == { i \in DOMAIN tokens : tokens[i].isLastWord }

\* C35: for every input text that yields at least one token, exactly one token
\* carries the last-overall flag and it is the final token of the sequence,
\* including texts that end with blank lines.
C35_OneLastWordFlagAtEnd ==
    (op.name = "load" /\ Len(tokens) >= 1) => LastWordFlags = { Len(tokens) }

\* C35, the case: a text of one paragraph of two words followed by blank
\* lines; its two tokens are in paragraph 0 and neither carries the flag.
C35_TrailingBlankLinesNoFlag ==
    /\ op.name = "load"
    /\ Len(tokens) = 2
    /\ \A i \in DOMAIN tokens : tokens[i].paragraphIndex = 0
    /\ tokens[2].isLastInParagraph
    /\ LastWordFlags = {}

\* C35, the part that holds: no token but the final one carries the flag.
C35_FlagOnlyAtEnd ==
    op.name = "load" => LastWordFlags \subseteq { Len(tokens) }

(***************************************************************************)
(* Landing: a paused or freshly loaded engine is moved with a navigation   *)
(* command, then played; the texts hold a phrase of three and of two words *)
(***************************************************************************)
NextLanding ==
    \/ \E text \in { TextHead, TextTail } : Load(text) /\ Limits'
    \/ \E index \in Indexes : ~isPlaying /\ GoToWord(index) /\ Limits'
    \/ ~isPlaying /\ NextWord /\ Limits'
    \/ ~isPlaying /\ PrevWord /\ Limits'
    \/ \E count \in Counts : ~isPlaying /\ Jump(count) /\ Limits'
    \/ ~isPlaying /\ Restart /\ Limits'
    \/ ~isPlaying /\ Play /\ Limits'
    \/ \E t \in timers : TimerFires(t) /\ Limits'

SpecLanding == Init /\ [][NextLanding]_vars

\* token k (0-based) is a tail word of a phrase that starts before it
IsTail(k) ==
    \E j \in DOMAIN tokens :
        /\ tokens[j].collocation # <<>>
        /\ j - 1 < k
        /\ k <= j - 1 + Len(tokens[j].collocation) - 1

\* C36: if a navigation command (goToWord, next, prev, jump or restart) on a
\* non-playing engine lands on a token i that starts a collocation of length L
\* and reports the joint phrase, then after play() the next onWordChange is
\* for token i+L: no tail word of the already displayed phrase is emitted on
\* its own.  Stated on the step that follows the skipped tail words: the
\* step before it was a play() or timer step that showed no word, and the
\* word this timer step shows is not a tail word of a phrase.
C36_NoTailWordAfterLanding ==
    [][ ( /\ op'.name = "timer"
          /\ op.name \in { "play", "timer" }
          /\ WordNotes(emitted) = <<>>
          /\ WordNotes(emitted') # <<>> )
            => ~IsTail(WordNotes(emitted')[1].word.index) ]_vars

\* C36, the case: on "in order to go" the first word playback has shown is
\* "to" alone, from a timer step: navigation had landed on token 0 and shown
\* "in order to", play() and a timer step skipped two tokens and stopped on
\* the phrase's last word.
C36_TailWordShownAlone ==
    /\ op.name = "timer"
    /\ words = Flatten(TextHead)
    /\ fatigue.wordsRead = 1
    /\ WordNotes(emitted) # <<>>
    /\ WordNotes(emitted)[1].word.index = 2
    /\ WordNotes(emitted)[1].word.displayText = << W_to >>
    /\ ~WordNotes(emitted)[1].word.isCollocation
    /\ IsTail(2)

(***************************************************************************)
(* Restart: load, play, pause, restart and the timer under every reading   *)
(* mode, on texts that begin with a content word, with a short word and    *)
(* with a phrase.                                                          *)
(***************************************************************************)
RestartTexts == { TextContent, TextPlain, TextHead }

NextRestart ==
    \/ \E mode \in ModeNames : op.name = "new" /\ SetMode(mode)
    \/ \E text \in RestartTexts : op.name \in { "new", "setMode" } /\ Load(text)
    \/ ~isPlaying /\ Play /\ Limits'
    \/ isPlaying /\ Pause /\ Limits'
    \/ op.name # "new" /\ Restart /\ Limits'
    \/ \E t \in timers : TimerFires(t) /\ Limits'

SpecRestart == Init /\ [][NextRestart]_vars

\* what the onWordChange callbacks of one operation carry: the token shown,
\* its factor tags and its multiplier
Shown(notes) ==
    [ i \in DOMAIN WordNotes(notes) |->
        [ index      |-> WordNotes(notes)[i].word.index,
          factors    |-> WordNotes(notes)[i].word.analysis.factors,
          multiplier |-> WordNotes(notes)[i].word.analysis.multiplier ] ]

\* the timer callbacks run one after the other until none is pending
RECURSIVE RunTimers(_, _)
RunTimers(s, shown) ==
    IF s.timers = {} THEN shown
    ELSE LET t  == CHOOSE t \in s.timers : TRUE
             s1 == showNextWord([s EXCEPT !.timers = @ \ {t}, !.emitted = <<>>])
         IN  RunTimers(s1, shown \o Shown(s1.emitted))

\* play() from s and then every timer: the per-word analysis results
PlayedFrom(s) ==
    Bind(play([s EXCEPT !.emitted = <<>>]), LAMBDA s1 :
        RunTimers(s1, Shown(s1.emitted)))

\* the text the engine holds
LoadedText == CHOOSE text \in RestartTexts : preprocessText(text) = tokens

\* C37: restart() followed by play() produces the same sequence of per-word
\* analysis results (factor tags and multipliers) as load() of the same text
\* followed by play(), given the same mode, adaptive mode on and no fatigue.
C37_RestartPlaysLikeLoad ==
    (op.name = "restart" /\ Len(words) >= 1)
        => PlayedFrom(Cur) = PlayedFrom(load(Cur, LoadedText))

\* C37, the case: after restart() of "Hello world. / Hello there", play() has
\* shown "Hello" as a recent repeat: restart() itself had analyzed it as a
\* first occurrence, after its reset.
C37_FirstWordIsRepeatAfterRestart ==
    /\ op.name = "play"
    /\ words = Flatten(TextContent)
    /\ fatigue.wordsRead = 1
    /\ history = << [ word |-> CleanWord(W_Hello), tag |-> "first-occurrence" ],
                    [ word |-> CleanWord(W_Hello), tag |-> "recent-repeat" ] >>
    /\ Len(Shown(emitted)) = 1
    /\ Shown(emitted)[1].index = 0
    /\ Includes(Shown(emitted)[1].factors, "recent-repeat")
    /\ ~Includes(Shown(load(Cur, LoadedText).emitted \o
                       play(load(Cur, LoadedText)).emitted)[1].factors,
                 "recent-repeat")

\* C37, the part that holds: when the first token is neither tracked as a
\* concept (normalized length at most 4) nor the start of a phrase, restart()
\* and load() are followed by the same analyses.
C37_RestartPlaysLikeLoadShortFirstWord ==
    ( /\ op.name = "restart"
      /\ Len(words) >= 1
      /\ Len(CleanWord(words[1])) <= 4
      /\ tokens[1].collocation = <<>> )
        => PlayedFrom(Cur) = PlayedFrom(load(Cur, LoadedText))

\* the step is next(), goToWord(i) or jump(d) with d >= 0
ForwardNavigation ==
    \/ op'.name \in { "next", "goToWord" }
    \/ op'.name = "jump" /\ op'.arg >= 0

\* the step changes neither the fatigue level nor the rewind and pause counters
FatigueUntouched ==
    /\ fatigue'.fatigueLevel = fatigue.fatigueLevel
    /\ fatigue'.rewinds = fatigue.rewinds
    /\ fatigue'.pauses = fatigue.pauses

\* C38: forward navigation leaves fatigue untouched: next(), goToWord(i) and
\* jump(d) with d >= 0 change neither the fatigue level nor the rewind and
\* pause counters, whether the engine is playing or paused when they are
\* called.
C38_ForwardNavigationKeepsFatigue ==
    [][ ForwardNavigation => FatigueUntouched ]_vars

\* C38, the case: next() was called while playing, after one rewind; its
\* pause() counted a pause and its play() took 0.02 off the level of 0.05.
C38_NextWhilePlayingCountsPause ==
    /\ op.name = "next"
    /\ op.wasPlaying
    /\ isPlaying
    /\ fatigue.rewinds = 1
    /\ fatigue.pauses = 1
    /\ fatigue.fatigueLevel = 3

\* C38, the part that holds: on an engine that is not playing, forward
\* navigation leaves fatigue untouched.
C38_ForwardNavigationKeepsFatigueWhenStopped ==
    [][ (ForwardNavigation /\ ~isPlaying) => FatigueUntouched ]_vars

\* C39: getCurrentWord() answers as a query: two consecutive calls at the same
\* cursor with no command or timer firing in between return the same
\* displayText and the same isCollocation flag.
C39_GetCurrentWordRepeats ==
    [][ ( /\ op.name = "getCurrentWord"
          /\ op'.name = "getCurrentWord"
          /\ ~currentWord.isNull )
            => /\ currentIndex' = currentIndex
               /\ currentWord'.displayText = currentWord.displayText
               /\ currentWord'.isCollocation = currentWord.isCollocation ]_vars

\* C39, the case: on "in order to go" the cursor is on "in", which starts the
\* phrase "in order to"; an earlier call has set skipCount to 2 and this call
\* answers with the single word.
C39_SecondCallShowsSingleWord ==
    /\ op.name = "getCurrentWord"
    /\ words = Flatten(TextHead)
    /\ currentIndex = 0
    /\ Len(tokens[1].collocation) = 3
    /\ skipCount = 2
    /\ currentWord.displayText = << W_in >>
    /\ ~currentWord.isCollocation

\* C39, the part that holds: the second call differs only where the first one
\* reported a phrase.
C39_GetCurrentWordRepeatsSingleWord ==
    [][ ( /\ op.name = "getCurrentWord"
          /\ op'.name = "getCurrentWord"
          /\ ~currentWord.isNull
          /\ ~currentWord.isCollocation )
            => /\ currentIndex' = currentIndex
               /\ currentWord'.displayText = currentWord.displayText
               /\ currentWord'.isCollocation = currentWord.isCollocation ]_vars

\* the analyses since the last reset that gave w the first-occurrence tag
FirstOccurrences(w) ==
    { i \in DOMAIN history :
          history[i].word = w /\ history[i].tag = "first-occurrence" }

\* C40: between resets each normalized word receives the first-occurrence tag
\* in at most one analysis, and no single analysis result carries both the
\* first-occurrence and the recent-repeat tag.
C40_FirstOccurrenceOnce ==
    /\ \A i \in DOMAIN history :
           Cardinality(FirstOccurrences(history[i].word)) <= 1
    /\ ~analysis.isNull =>
           ~ ( /\ Includes(analysis.factors, "first-occurrence")
               /\ Includes(analysis.factors, "recent-repeat") )

\* C40, the case: the word that opens the long document has come back after
\* it left the recent window; it was a first occurrence once, at the start,
\* and its second analysis carries neither tag.
C40_RevisitIsNoFirstOccurrence ==
    /\ Len(history) > recentWindowSize + 1
    /\ history[Len(history)].word = history[1].word
    /\ FirstOccurrences(history[1].word) = { 1 }
    /\ ~analysis.isNull
    /\ ~Includes(analysis.factors, "first-occurrence")
    /\ ~Includes(analysis.factors, "recent-repeat")

\* C40, a revisit inside the window: the second analysis of a word carries the
\* recent-repeat tag and not the first-occurrence tag.
C40_RevisitIsRecentRepeat ==
    /\ Len(history) >= 2
    /\ history[Len(history)].word = history[Len(history) - 1].word
    /\ history[Len(history) - 1].tag = "first-occurrence"
    /\ ~analysis.isNull
    /\ Includes(analysis.factors, "recent-repeat")
    /\ ~Includes(analysis.factors, "first-occurrence")

====
